---- MODULE Spec2Model ----
(***************************************************************************)
(* Coordinator of the workflow orchestrator: state store, scheduler,       *)
(* worker registry and workflow engine.                                    *)
(*                                                                         *)
(* Every handler (an API call or the processing of one websocket message)  *)
(* is one action.  The handlers are written as operators over a record `s` *)
(* that bundles the coordinator's mutable state, so that a handler can be  *)
(* applied to a state, composed and compared.                              *)
(*                                                                         *)
(* The StateManager accessors are modelled by the in-memory lookup or      *)
(* update their bodies perform (the engine and the registry call them      *)
(* without await).  WorkflowEngine._reschedule_pending_jobs, which the     *)
(* ready branch of the websocket endpoint calls, has no definition in the  *)
(* sources: reschedule_pending_jobs follows the design document.           *)
(* Workers behave as WorkerNode.execute_job does; a final report may reach *)
(* the coordinator twice.                                                  *)
(***************************************************************************)
EXTENDS Integers, Sequences, FiniteSets, TLC

VARIABLES
    workflows,          \* StateManager.workflows: workflow id -> Workflow
    workflow_order,     \* insertion order of StateManager.workflows
    wjobs,              \* the Job objects of Workflow.jobs: <<workflow id, job id>> -> Job
    jobs,               \* StateManager.jobs: job id -> workflow whose Job object is stored
    workers,            \* StateManager.workers: worker id -> Worker
    worker_order,       \* insertion order of StateManager.workers
    job_assignments,    \* StateManager.job_assignments, in insertion order: <<job id, worker id>>
    active_connections, \* StateManager.active_connections (its key set)
    tasks,              \* the jobs the worker processes hold: {<<worker id, job id, phase>>}
    duplicates,         \* final reports delivered although already delivered
    db                  \* the rows of StateManager.postgres (none without DATABASE_URL)

vars == <<workflows, workflow_order, wjobs, jobs, workers, worker_order,
          job_assignments, active_connections, tasks, duplicates, db>>

----------------------------------------------------------------------------
(* Bounds of the model *)

\* max_retries given to the jobs of the workflow definitions
MaxRetries == 1

\* final reports a run may deliver a second time
MaxDuplicates == 1

WorkflowIds == {"w1"}
WorkerIds == {"k1", "k2"}
JobIds == {"A", "B", "C"}

None == "none"

----------------------------------------------------------------------------
(* Sequence helpers (Python list operations) *)

InSeq(x, q) == \E i \in 1..Len(q) : q[i] = x

\* list.append without the guard
AppendAlways(q, x) == Append(q, x)

\* list.append guarded by "if x not in list"
AppendNew(q, x) == IF InSeq(x, q) THEN q ELSE Append(q, x)

\* list.remove guarded by "if x in list": drops the first occurrence
RECURSIVE RemoveFirst(_, _)
RemoveFirst(q, x) ==
    IF q = <<>> THEN <<>>
    ELSE IF Head(q) = x THEN Tail(q)
    ELSE <<Head(q)>> \o RemoveFirst(Tail(q), x)

SeqSet(q) == {q[i] : i \in 1..Len(q)}

----------------------------------------------------------------------------
(* Enumerations *)

JobStatus == {"pending", "running", "completed", "failed", "retrying", "skipped"}
JobType == {"validation", "processing", "integration", "cleanup"}
WorkflowStatus == {"pending", "running", "completed", "failed", "cancelled"}
WorkerStatus == {"idle", "busy", "offline"}

\* Job(...) with the model's defaults
Job(type, on_success, on_failure, always_run) ==
    [type |-> type, status |-> "pending", worker_id |-> None, result |-> None,
     error |-> None, retry_count |-> 0, max_retries |-> MaxRetries,
     on_success |-> on_success, on_failure |-> on_failure,
     always_run |-> always_run]

\* Workflow(...) as created by the API: status pending, empty id lists
Workflow(job_ids) ==
    [status |-> "pending", jobs |-> job_ids, current_jobs |-> <<>>,
     completed_jobs |-> <<>>, failed_jobs |-> <<>>]

\* Worker(...) as created by register_worker
Worker(capabilities) ==
    [status |-> "idle", capabilities |-> capabilities, current_job_id |-> None]

----------------------------------------------------------------------------
(* The state record the handlers compute on *)

\* the coordinator's state, with `out` the job_assignment messages the running
\* handler has written so far
State ==
    [workflows |-> workflows, workflow_order |-> workflow_order, wjobs |-> wjobs,
     jobs |-> jobs, workers |-> workers, worker_order |-> worker_order,
     job_assignments |-> job_assignments,
     active_connections |-> active_connections, out |-> <<>>, db |-> db]

\* dict.pop(key, None) on a function
DropKey(f, k) == [x \in (DOMAIN f) \ {k} |-> f[x]]

\* dict[key] = value on a function
PutKey(f, k, v) == [x \in (DOMAIN f) \cup {k} |-> IF x = k THEN v ELSE f[x]]

\* StateManager.get_job finds a Job object under job_id
has_job(s, job_id) == job_id \in DOMAIN s.jobs

\* StateManager.get_job: the Job object stored under job_id
get_job(s, job_id) == <<s.jobs[job_id], job_id>>

\* StateManager.assign_job: job_assignments[job_id] = worker_id
\* (a key already present keeps its place in the dict)
assign_entry(q, job_id, worker_id) ==
    IF \E i \in 1..Len(q) : q[i][1] = job_id
    THEN [i \in 1..Len(q) |-> IF q[i][1] = job_id THEN <<job_id, worker_id>> ELSE q[i]]
    ELSE Append(q, <<job_id, worker_id>>)

\* unassign_job that removes nothing
keep_entry(q, job_id) == q

\* StateManager.unassign_job: job_assignments.pop(job_id, None)
unassign_entry(q, job_id) == SelectSeq(q, LAMBDA e : e[1] # job_id)

----------------------------------------------------------------------------
(* Durable storage: the tables of PostgresDB.  Every write is a merge or a
   delete by primary key; without DATABASE_URL there is no store. *)

\* the tables after init_db on an empty database
EmptyDb ==
    [postgres |-> TRUE,
     workflows |-> <<>>, workflow_order |-> <<>>, jobs |-> <<>>, job_order |-> <<>>,
     workers |-> <<>>, worker_order |-> <<>>, job_assignments |-> <<>>]

\* StateManager(postgres=None): no write reaches a table
NoDb == [EmptyDb EXCEPT !.postgres = FALSE]

\* PostgresDB.save_workflow: the row holds the status and the three id lists
save_workflow(d, w, wf) ==
    IF ~d.postgres THEN d
    ELSE [d EXCEPT
            !.workflows = PutKey(@, w, [status |-> wf.status,
                                        current_jobs |-> wf.current_jobs,
                                        completed_jobs |-> wf.completed_jobs,
                                        failed_jobs |-> wf.failed_jobs]),
            !.workflow_order = AppendNew(@, w)]

\* PostgresDB.save_job: the row is keyed by the job id and names its workflow
save_job(d, w, job_id, job) ==
    IF ~d.postgres THEN d
    ELSE [d EXCEPT !.jobs = PutKey(@, job_id, [workflow_id |-> w, job |-> job]),
                   !.job_order = AppendNew(@, job_id)]

\* "for job in workflow.jobs: await self.postgres.save_job(job, workflow.id)"
RECURSIVE save_jobs(_, _, _, _)
save_jobs(d, w, ids, job_of) ==
    IF ids = <<>> THEN d
    ELSE save_jobs(save_job(d, w, Head(ids), job_of[Head(ids)]), w, Tail(ids), job_of)

\* PostgresDB.save_worker
save_worker(d, worker_id, worker) ==
    IF ~d.postgres THEN d
    ELSE [d EXCEPT !.workers = PutKey(@, worker_id, worker),
                   !.worker_order = AppendNew(@, worker_id)]

\* PostgresDB.delete_worker
delete_worker(d, worker_id) ==
    IF ~d.postgres THEN d
    ELSE [d EXCEPT !.workers = DropKey(@, worker_id),
                   !.worker_order = SelectSeq(@, LAMBDA k : k # worker_id)]

\* PostgresDB.save_assignment
save_assignment(d, job_id, worker_id) ==
    IF ~d.postgres THEN d
    ELSE [d EXCEPT !.job_assignments = assign_entry(@, job_id, worker_id)]

\* PostgresDB.delete_assignment
delete_assignment(d, job_id) ==
    IF ~d.postgres THEN d
    ELSE [d EXCEPT !.job_assignments = unassign_entry(@, job_id)]

\* StateManager.assign_job up to the durable write (the state in which a
\* failing write leaves the store)
state_assign_job_memory(s, job_id, worker_id) ==
    [s EXCEPT !.job_assignments = assign_entry(@, job_id, worker_id)]

\* StateManager.assign_job
state_assign_job(s, job_id, worker_id) ==
    [state_assign_job_memory(s, job_id, worker_id) EXCEPT
        !.db = save_assignment(@, job_id, worker_id)]

\* StateManager.unassign_job up to the durable write
state_unassign_job_memory(s, job_id) ==
    [s EXCEPT !.job_assignments = unassign_entry(@, job_id)]

\* StateManager.unassign_job
state_unassign_job(s, job_id) ==
    [state_unassign_job_memory(s, job_id) EXCEPT !.db = delete_assignment(@, job_id)]

\* StateManager.add_worker up to the durable write
add_worker_memory(s, worker_id, worker) ==
    [s EXCEPT !.workers = PutKey(@, worker_id, worker),
              !.worker_order = AppendNew(@, worker_id)]

\* StateManager.add_worker
add_worker(s, worker_id, worker) ==
    [add_worker_memory(s, worker_id, worker) EXCEPT
        !.db = save_worker(@, worker_id, worker)]

\* StateManager.remove_worker up to the durable write
remove_worker_memory(s, worker_id) ==
    [s EXCEPT !.workers = DropKey(@, worker_id),
              !.worker_order = SelectSeq(@, LAMBDA k : k # worker_id)]

\* StateManager.remove_worker
remove_worker(s, worker_id) ==
    [remove_worker_memory(s, worker_id) EXCEPT !.db = delete_worker(@, worker_id)]

----------------------------------------------------------------------------
(* Scheduler *)

\* Scheduler.send_message: the write succeeds when the worker has a connection
\* and the socket write does not raise (`bad` = workers whose socket write raises)
send_message(s, worker_id, bad) ==
    worker_id \in s.active_connections /\ worker_id \notin bad

\* the list of assign_job without "and worker.status == 'idle'"
capable_workers(s, job_type) ==
    SelectSeq(s.worker_order, LAMBDA k : job_type \in s.workers[k].capabilities)

\* the workers assign_job may pick, in the order of the workers dict
suitable_workers(s, job_type) ==
    SelectSeq(s.worker_order,
              LAMBDA k : job_type \in s.workers[k].capabilities
                         /\ s.workers[k].status = "idle")

\* Scheduler.assign_job: returns the state and the worker id (None when the job
\* could not be placed)
assign_job(s, job_id, job_type, bad) ==
    LET suitable == suitable_workers(s, job_type) IN
    IF suitable = <<>> THEN [s |-> s, worker_id |-> None]
    ELSE
      LET worker_id == suitable[1]
          s1 == state_assign_job([s EXCEPT
                                    !.workers[worker_id].status = "busy",
                                    !.workers[worker_id].current_job_id = job_id],
                                 job_id, worker_id)
      IN IF send_message(s1, worker_id, bad)
         THEN [s |-> [s1 EXCEPT !.out = Append(@, <<job_id, worker_id>>)],
               worker_id |-> worker_id]
         ELSE [s |-> state_unassign_job([s1 EXCEPT
                                           !.workers[worker_id].status = "idle",
                                           !.workers[worker_id].current_job_id = None],
                                        job_id),
               worker_id |-> None]

----------------------------------------------------------------------------
(* Workflow engine: scheduling helpers *)

\* WorkflowEngine._find_workflow_for_job: the first workflow, in the order of
\* list_workflows, that has a job with this id (None when there is none)
find_workflow_for_job(s, job_id) ==
    LET hits == SelectSeq(s.workflow_order,
                          LAMBDA w : InSeq(job_id, s.workflows[w].jobs))
    IN IF hits = <<>> THEN None ELSE hits[1]

\* _can_schedule_job without the look at the predecessors
can_schedule_unguarded(s, w, job_id) ==
    LET wf == s.workflows[w] IN
    IF ~InSeq(job_id, wf.jobs) THEN FALSE
    ELSE IF InSeq(job_id, wf.completed_jobs) \/ InSeq(job_id, wf.failed_jobs)
    THEN FALSE
    ELSE ~(InSeq(job_id, wf.current_jobs) /\ s.wjobs[<<w, job_id>>].status = "running")

\* WorkflowEngine._can_schedule_job
can_schedule_job(s, w, job_id) ==
    LET wf == s.workflows[w] IN
    IF ~InSeq(job_id, wf.jobs) THEN FALSE
    ELSE IF InSeq(job_id, wf.completed_jobs) \/ InSeq(job_id, wf.failed_jobs)
    THEN FALSE
    ELSE IF InSeq(job_id, wf.current_jobs) /\ s.wjobs[<<w, job_id>>].status = "running"
    THEN FALSE
    ELSE IF s.wjobs[<<w, job_id>>].always_run THEN TRUE
    ELSE
      LET preds == SeqSet(wf.jobs)
          has_predecessors ==
              \E p \in preds : InSeq(job_id, s.wjobs[<<w, p>>].on_success)
                               \/ InSeq(job_id, s.wjobs[<<w, p>>].on_failure)
          satisfied ==
              \E p \in preds :
                  \/ InSeq(job_id, s.wjobs[<<w, p>>].on_success)
                     /\ InSeq(p, wf.completed_jobs)
                  \/ InSeq(job_id, s.wjobs[<<w, p>>].on_failure)
                     /\ InSeq(p, wf.failed_jobs)
      IN satisfied \/ ~has_predecessors

\* _schedule_job without the else branch that reverts the status
schedule_job_no_revert(s, w, job_id, bad) ==
    IF w \notin DOMAIN s.workflows \/ ~has_job(s, job_id) THEN s
    ELSE
      LET o == get_job(s, job_id) IN
      IF s.wjobs[o].status \in {"running", "completed"} THEN s
      ELSE
        LET s1 == [s EXCEPT
                     !.wjobs[o].status = "running",
                     !.workflows[w].current_jobs = AppendNew(@, job_id)]
            r == assign_job(s1, job_id, s.wjobs[o].type, bad)
        IN IF r.worker_id # None
           THEN [r.s EXCEPT !.wjobs[o].worker_id = r.worker_id]
           ELSE r.s

\* _schedule_job without "job.status = JobStatus.RUNNING"
schedule_job_keeps_status(s, w, job_id, bad) ==
    IF w \notin DOMAIN s.workflows \/ ~has_job(s, job_id) THEN s
    ELSE
      LET o == get_job(s, job_id) IN
      IF s.wjobs[o].status \in {"running", "completed"} THEN s
      ELSE
        LET s1 == [s EXCEPT !.workflows[w].current_jobs = AppendNew(@, job_id)]
            r == assign_job(s1, job_id, s.wjobs[o].type, bad)
        IN IF r.worker_id # None
           THEN [r.s EXCEPT !.wjobs[o].worker_id = r.worker_id]
           ELSE [r.s EXCEPT
                   !.wjobs[o].status = "pending",
                   !.workflows[w].current_jobs = RemoveFirst(@, job_id)]

\* WorkflowEngine._schedule_job
schedule_job(s, w, job_id, bad) ==
    IF w \notin DOMAIN s.workflows \/ ~has_job(s, job_id) THEN s
    ELSE
      LET o == get_job(s, job_id) IN
      IF s.wjobs[o].status \in {"running", "completed"} THEN s
      ELSE
        LET s1 == [s EXCEPT
                     !.wjobs[o].status = "running",
                     !.workflows[w].current_jobs = AppendNew(@, job_id)]
            r == assign_job(s1, job_id, s.wjobs[o].type, bad)
        IN IF r.worker_id # None
           THEN [r.s EXCEPT !.wjobs[o].worker_id = r.worker_id]
           ELSE [r.s EXCEPT
                   !.wjobs[o].status = "pending",
                   !.workflows[w].current_jobs = RemoveFirst(@, job_id)]

\* "for job_id in ids: if guard(job_id): await self._schedule_job(...)":
\* the guard is evaluated when the loop reaches the job
RECURSIVE schedule_each(_, _, _, _, _)
schedule_each(s, w, ids, guarded, bad) ==
    IF ids = <<>> THEN s
    ELSE LET s1 == IF guarded => can_schedule_job(s, w, Head(ids))
                   THEN schedule_job(s, w, Head(ids), bad)
                   ELSE s
         IN schedule_each(s1, w, Tail(ids), guarded, bad)

----------------------------------------------------------------------------
(* Workflow engine: termination *)

\* WorkflowEngine._run_always_run_jobs: the list is computed before the loop
run_always_run_jobs(s, w, bad) ==
    LET always_run_jobs ==
            SelectSeq(s.workflows[w].jobs,
                      LAMBDA j : s.wjobs[<<w, j>>].always_run
                                 /\ s.wjobs[<<w, j>>].status \notin {"completed", "running"})
    IN schedule_each(s, w, always_run_jobs, FALSE, bad)

\* the jobs _mark_skipped_jobs marks
to_skip(s, w) ==
    LET wf == s.workflows[w] IN
    {j \in SeqSet(wf.jobs) :
        /\ ~InSeq(j, wf.completed_jobs) /\ ~InSeq(j, wf.failed_jobs)
        /\ ~s.wjobs[<<w, j>>].always_run
        /\ s.wjobs[<<w, j>>].status # "running"
        /\ s.wjobs[<<w, j>>].status = "pending"
        /\ ~can_schedule_job(s, w, j)}

\* _mark_skipped_jobs that marks no job
mark_no_job(s, w) == s

\* WorkflowEngine._mark_skipped_jobs
mark_skipped_jobs(s, w) ==
    LET skip == to_skip(s, w) IN
    [s EXCEPT !.wjobs = [o \in DOMAIN @ |->
                            IF o[1] = w /\ o[2] \in skip
                            THEN [@[o] EXCEPT !.status = "skipped"]
                            ELSE @[o]]]

\* WorkflowEngine._check_workflow_completion
check_workflow_completion(s, w, bad) ==
    LET wf == s.workflows[w] IN
    IF wf.current_jobs # <<>> THEN s
    ELSE
      LET can_schedule_more ==
              \E j \in SeqSet(wf.jobs) :
                  /\ ~InSeq(j, wf.completed_jobs) /\ ~InSeq(j, wf.failed_jobs)
                  /\ ~s.wjobs[<<w, j>>].always_run
                  /\ can_schedule_job(s, w, j)
      IN IF can_schedule_more THEN s
         ELSE
           LET s1 == mark_skipped_jobs(s, w)
               s2 == run_always_run_jobs(s1, w, bad)
           IN [s2 EXCEPT !.workflows[w].status =
                   IF s2.workflows[w].failed_jobs # <<>> THEN "failed" ELSE "completed"]

\* _fail_workflow without "workflow.status = WorkflowStatus.FAILED"
fail_workflow_keeps_status(s, w, bad) == run_always_run_jobs(s, w, bad)

\* WorkflowEngine._fail_workflow
fail_workflow(s, w, bad) ==
    run_always_run_jobs([s EXCEPT !.workflows[w].status = "failed"], w, bad)

----------------------------------------------------------------------------
(* Workflow engine: job reports *)

\* WorkflowEngine.handle_job_completion
handle_job_completion(s, job_id, bad) ==
    IF ~has_job(s, job_id) THEN s
    ELSE
      LET o == get_job(s, job_id)
          s1 == [s EXCEPT !.wjobs[o].status = "completed", !.wjobs[o].result = "set"]
          w == find_workflow_for_job(s1, job_id)
      IN IF w = None THEN s1
         ELSE
           LET s2 == [s1 EXCEPT
                        !.workflows[w].completed_jobs = AppendNew(@, job_id),
                        !.workflows[w].current_jobs = RemoveFirst(@, job_id)]
               s3 == schedule_each(s2, w, s2.wjobs[o].on_success, TRUE, bad)
           IN check_workflow_completion(s3, w, bad)

\* error.get("message", "Unknown error"): the text handle_job_failure stores in
\* job.error for a failure report, whose payload has no "message" key
ErrorMessage == "Unknown error"

\* the "message" of the error _handle_worker_failure builds
\* (one value stands for the texts of all workers)
DisconnectMessage == "Worker disconnected during job execution"

\* "if job.retry_count < job.max_retries" without the bound
always_retry(job) == TRUE

\* "if job.retry_count < job.max_retries"
can_retry(job) == job.retry_count < job.max_retries

\* the retry branch without "job.retry_count += 1"
retry_job_same_count(job, error) ==
    [job EXCEPT !.status = "retrying", !.error = error, !.worker_id = None]

\* the fields the retry branch of handle_job_failure sets
retry_job(job, error) ==
    [job EXCEPT !.retry_count = @ + 1, !.status = "retrying", !.error = error,
                !.worker_id = None]

\* WorkflowEngine.handle_job_failure
handle_job_failure(s, job_id, error, bad) ==
    IF ~has_job(s, job_id) THEN s
    ELSE
      LET o == get_job(s, job_id)
          job == s.wjobs[o]
          w == find_workflow_for_job(s, job_id)
      IN IF can_retry(job)
         THEN
           LET s1 == [s EXCEPT !.wjobs[o] = retry_job(@, error)]
           IN IF w # None THEN schedule_job(s1, w, job_id, bad) ELSE s1
         ELSE
           LET s1 == [s EXCEPT !.wjobs[o].status = "failed", !.wjobs[o].error = error]
           IN IF w = None THEN s1
              ELSE
                LET s2 == [s1 EXCEPT
                             !.workflows[w].failed_jobs = AppendNew(@, job_id),
                             !.workflows[w].current_jobs = RemoveFirst(@, job_id)]
                IN IF job.on_failure # <<>>
                   THEN schedule_each(s2, w, job.on_failure, TRUE, bad)
                   ELSE fail_workflow(s2, w, bad)

\* WorkflowEngine.update_job_status
update_job_status(s, job_id, status) ==
    IF ~has_job(s, job_id) \/ status \notin JobStatus THEN s
    ELSE [s EXCEPT !.wjobs[get_job(s, job_id)].status = status]

----------------------------------------------------------------------------
(* Workflow engine: cancellation *)

\* cancel_workflow without the loop over current_jobs
cancel_none(s, ids) == s

\* the loop of cancel_workflow over current_jobs
RECURSIVE cancel_running(_, _)
cancel_running(s, ids) ==
    IF ids = <<>> THEN s
    ELSE LET j == Head(ids)
             s1 == IF has_job(s, j) /\ s.wjobs[get_job(s, j)].status = "running"
                   THEN [s EXCEPT !.wjobs[get_job(s, j)].status = "failed",
                                  !.wjobs[get_job(s, j)].error = "Workflow cancelled"]
                   ELSE s
         IN cancel_running(s1, Tail(ids))

\* WorkflowEngine.cancel_workflow
cancel_workflow(s, w, bad) ==
    IF w \notin DOMAIN s.workflows THEN s
    ELSE IF s.workflows[w].status \notin {"running", "pending"} THEN s
    ELSE
      LET s1 == [s EXCEPT !.workflows[w].status = "cancelled"]
          s2 == cancel_running(s1, s1.workflows[w].current_jobs)
      IN run_always_run_jobs(s2, w, bad)

----------------------------------------------------------------------------
(* Workflow engine: dependency graph and start *)

\* the ids a job of workflow w lists in on_success or on_failure
refs(s, w, j) ==
    SeqSet(s.wjobs[<<w, j>>].on_success) \cup SeqSet(s.wjobs[<<w, j>>].on_failure)

\* has_cycle of _validate_no_cycles: st = [visited, rec_stack, found]
RECURSIVE has_cycle(_, _, _), visit_neighbors(_, _, _)
has_cycle(dependencies, node, st) ==
    LET st1 == [visited |-> st.visited \cup {node},
                rec_stack |-> st.rec_stack \cup {node}, found |-> FALSE]
        r == visit_neighbors(dependencies, dependencies[node], st1)
    IN IF r.found THEN r ELSE [r EXCEPT !.rec_stack = @ \ {node}]

\* "for neighbor in dependencies.get(node, set())"
visit_neighbors(dependencies, todo, st) ==
    IF todo = {} THEN st
    ELSE LET neighbor == CHOOSE x \in todo : TRUE IN
         IF neighbor \notin st.visited
         THEN LET r == has_cycle(dependencies, neighbor, st)
              IN IF r.found THEN r
                 ELSE visit_neighbors(dependencies, todo \ {neighbor}, r)
         ELSE IF neighbor \in st.rec_stack THEN [st EXCEPT !.found = TRUE]
         ELSE visit_neighbors(dependencies, todo \ {neighbor}, st)

\* "for job_id in dependencies: if job_id not in visited: if has_cycle(job_id)"
RECURSIVE cycle_from_roots(_, _, _)
cycle_from_roots(dependencies, ids, st) ==
    IF ids = <<>> THEN FALSE
    ELSE IF Head(ids) \in st.visited THEN cycle_from_roots(dependencies, Tail(ids), st)
    ELSE LET r == has_cycle(dependencies, Head(ids), st)
         IN IF r.found THEN TRUE ELSE cycle_from_roots(dependencies, Tail(ids), r)

\* _validate_no_cycles that never raises
validate_never_raises(dependencies, ids) == FALSE

\* WorkflowEngine._validate_no_cycles: TRUE when it raises
validate_no_cycles_raises(dependencies, ids) ==
    cycle_from_roots(dependencies, ids,
                     [visited |-> {}, rec_stack |-> {}, found |-> FALSE])

\* WorkflowEngine._build_dependency_graph: ok = FALSE when it raises ValueError
build_dependency_graph(s, w) ==
    LET wf == s.workflows[w]
        job_ids == SeqSet(wf.jobs)
    IN IF \E j \in job_ids : ~(refs(s, w, j) \subseteq job_ids)
       THEN [ok |-> FALSE, dependencies |-> <<>>]
       ELSE
         LET dependencies == [c \in job_ids |-> {p \in job_ids : c \in refs(s, w, p)}]
         IN [ok |-> ~validate_no_cycles_raises(dependencies, wf.jobs),
             dependencies |-> dependencies]

\* _find_entry_jobs without "if not deps"
find_all_jobs(dependencies, ids) == ids

\* WorkflowEngine._find_entry_jobs, in the order of the dependencies dict
find_entry_jobs(dependencies, ids) ==
    SelectSeq(ids, LAMBDA j : dependencies[j] = {})

\* the value start_workflow returns
start_workflow_returns(s, w) ==
    /\ w \in DOMAIN s.workflows
    /\ s.workflows[w].status = "pending"
    /\ build_dependency_graph(s, w).ok
    /\ find_entry_jobs(build_dependency_graph(s, w).dependencies,
                       s.workflows[w].jobs) # <<>>

\* start_workflow without "if workflow.status != WorkflowStatus.PENDING"
start_workflow_any_status(s, w, bad) ==
    IF w \notin DOMAIN s.workflows THEN s
    ELSE
      LET g == build_dependency_graph(s, w) IN
      IF ~g.ok THEN [s EXCEPT !.workflows[w].status = "failed"]
      ELSE
        LET entry_jobs == find_entry_jobs(g.dependencies, s.workflows[w].jobs) IN
        IF entry_jobs = <<>> THEN [s EXCEPT !.workflows[w].status = "failed"]
        ELSE schedule_each([s EXCEPT !.workflows[w].status = "running"],
                           w, entry_jobs, FALSE, bad)

\* WorkflowEngine.start_workflow
start_workflow(s, w, bad) ==
    IF w \notin DOMAIN s.workflows THEN s
    ELSE IF s.workflows[w].status # "pending" THEN s
    ELSE
      LET g == build_dependency_graph(s, w) IN
      IF ~g.ok THEN [s EXCEPT !.workflows[w].status = "failed"]
      ELSE
        LET entry_jobs == find_entry_jobs(g.dependencies, s.workflows[w].jobs) IN
        IF entry_jobs = <<>> THEN [s EXCEPT !.workflows[w].status = "failed"]
        ELSE schedule_each([s EXCEPT !.workflows[w].status = "running"],
                           w, entry_jobs, FALSE, bad)

----------------------------------------------------------------------------
(* Worker registry and the ready message *)

\* the loop of WorkerRegistry._handle_worker_failure over the jobs it collected
RECURSIVE fail_each(_, _, _, _)
fail_each(s, ids, worker_id, bad) ==
    IF ids = <<>> THEN s
    ELSE LET j == Head(ids)
             s1 == state_unassign_job(s, j)
             s2 == IF has_job(s1, j)
                   THEN handle_job_failure(
                            [s1 EXCEPT !.wjobs[get_job(s1, j)].worker_id = None],
                            j, DisconnectMessage, bad)
                   ELSE s1
         IN fail_each(s2, Tail(ids), worker_id, bad)

\* the job ids of a list of assignment entries
RECURSIVE entry_jobs_of(_)
entry_jobs_of(q) == IF q = <<>> THEN <<>> ELSE <<Head(q)[1]>> \o entry_jobs_of(Tail(q))

\* _handle_worker_failure that finds no job
ignore_worker_failure(s, worker_id, bad) == s

\* WorkerRegistry._handle_worker_failure
handle_worker_failure(s, worker_id, bad) ==
    LET failed_jobs ==
            entry_jobs_of(SelectSeq(s.job_assignments, LAMBDA e : e[2] = worker_id))
    IN fail_each(s, failed_jobs, worker_id, bad)

\* WorkerRegistry.disconnect
disconnect(s, worker_id, bad) ==
    LET s1 == remove_worker([s EXCEPT !.active_connections = @ \ {worker_id}],
                            worker_id)
    IN handle_worker_failure(s1, worker_id, bad)

\* WorkerRegistry.register_worker
register_worker(s, worker_id, capabilities) ==
    add_worker(s, worker_id, Worker(capabilities))

\* WorkflowEngine._reschedule_pending_jobs: every pending or retrying job of
\* the workflow that satisfies the scheduling precondition is scheduled again
RECURSIVE reschedule_pending_jobs(_, _, _, _)
reschedule_pending_jobs(s, w, ids, bad) ==
    IF ids = <<>> THEN s
    ELSE LET j == Head(ids)
             s1 == IF s.wjobs[<<w, j>>].status \in {"pending", "retrying"}
                      /\ can_schedule_job(s, w, j)
                   THEN schedule_job(s, w, j, bad)
                   ELSE s
         IN reschedule_pending_jobs(s1, w, Tail(ids), bad)

\* the ready branch without its loop over the workflows
reschedule_nothing(s, ws, bad) == s

\* "for workflow in state.list_workflows(): if workflow.status == RUNNING: ..."
RECURSIVE reschedule_running(_, _, _)
reschedule_running(s, ws, bad) ==
    IF ws = <<>> THEN s
    ELSE LET w == Head(ws)
             s1 == IF s.workflows[w].status = "running"
                   THEN reschedule_pending_jobs(s, w, s.workflows[w].jobs, bad)
                   ELSE s
         IN reschedule_running(s1, Tail(ws), bad)

\* websocket_endpoint, ready branch
ready(s, worker_id, bad) ==
    IF worker_id \notin DOMAIN s.workers THEN s
    ELSE reschedule_running([s EXCEPT !.workers[worker_id].status = "idle"],
                            s.workflow_order, bad)

\* websocket_endpoint, job_status branch
job_status(s, job_id, status, bad) ==
    IF status = "completed" THEN handle_job_completion(s, job_id, bad)
    ELSE IF status = "failed" THEN handle_job_failure(s, job_id, ErrorMessage, bad)
    ELSE update_job_status(s, job_id, status)

----------------------------------------------------------------------------
(* Workflow definitions submitted through the API *)

Definitions == {"linear", "cleanup", "cycle", "dangling", "empty"}

\* the job list of a definition, in definition order
DefJobs(d) ==
    CASE d = "linear" -> <<"A", "B">>
      [] d = "cleanup" -> <<"A", "C">>
      [] d = "cycle" -> <<"A", "B">>
      [] d = "dangling" -> <<"A">>
      [] d = "empty" -> <<>>
      [] d = "branch" -> <<"A", "B", "C">>
      [] d = "snapshot" -> <<"A", "B">>
      [] d = "fallback" -> <<"A", "B", "C">>
      [] d = "shared" -> <<"A", "B", "C">>
      [] d = "join" -> <<"A", "B", "C">>
      [] d = "tail" -> <<"A", "B", "C">>
      [] d = "fan" -> <<"A", "B", "C", "D">>

\* the jobs of a definition
DefJob(d, j) ==
    CASE d = "linear" /\ j = "A" -> Job("validation", <<"B">>, <<>>, FALSE)
      [] d = "linear" /\ j = "B" -> Job("processing", <<>>, <<>>, FALSE)
      [] d = "cleanup" /\ j = "A" -> Job("validation", <<>>, <<"C">>, FALSE)
      [] d = "cleanup" /\ j = "C" -> Job("cleanup", <<>>, <<>>, TRUE)
      [] d = "cycle" /\ j = "A" -> Job("validation", <<"B">>, <<>>, FALSE)
      [] d = "cycle" /\ j = "B" -> Job("processing", <<>>, <<"A">>, FALSE)
      [] d = "dangling" /\ j = "A" -> Job("validation", <<"X">>, <<>>, FALSE)
      [] d = "branch" /\ j = "A" -> Job("validation", <<"B">>, <<"C">>, FALSE)
      [] d = "branch" /\ j = "B" -> Job("processing", <<>>, <<>>, FALSE)
      [] d = "branch" /\ j = "C" -> Job("cleanup", <<>>, <<>>, TRUE)
      [] d = "snapshot" /\ j = "A" ->
             [Job("validation", <<"B">>, <<>>, FALSE) EXCEPT
                 !.status = "running", !.worker_id = "k1"]
      [] d = "snapshot" /\ j = "B" -> Job("processing", <<>>, <<>>, FALSE)
      [] d = "fallback" /\ j = "A" -> Job("validation", <<"B">>, <<"C">>, FALSE)
      [] d = "fallback" /\ j = "B" -> Job("processing", <<>>, <<>>, FALSE)
      [] d = "fallback" /\ j = "C" -> Job("cleanup", <<>>, <<>>, FALSE)
      [] d = "shared" /\ j = "A" -> Job("validation", <<"C">>, <<>>, FALSE)
      [] d = "shared" /\ j = "B" -> Job("validation", <<>>, <<"C">>, FALSE)
      [] d = "shared" /\ j = "C" -> Job("cleanup", <<>>, <<>>, FALSE)
      [] d = "join" /\ j = "A" -> Job("validation", <<"C">>, <<>>, FALSE)
      [] d = "join" /\ j = "B" -> Job("validation", <<"C">>, <<>>, FALSE)
      [] d = "join" /\ j = "C" -> Job("cleanup", <<>>, <<>>, FALSE)
      [] d = "tail" /\ j = "A" -> Job("validation", <<>>, <<>>, FALSE)
      [] d = "tail" /\ j = "B" -> Job("validation", <<>>, <<>>, FALSE)
      [] d = "tail" /\ j = "C" -> Job("cleanup", <<>>, <<>>, TRUE)
      [] d = "fan" /\ j = "A" -> Job("validation", <<"C">>, <<>>, FALSE)
      [] d = "fan" /\ j = "B" -> Job("validation", <<"D">>, <<>>, FALSE)
      [] d = "fan" /\ j = "C" -> Job("validation", <<>>, <<>>, FALSE)
      [] d = "fan" /\ j = "D" -> Job("cleanup", <<>>, <<>>, FALSE)

\* the capability list each worker process is configured with (WORKER_CAPABILITIES)
WorkerCapabilities(k) ==
    IF k = "k1" THEN {"validation", "processing", "cleanup"}
    ELSE {"validation", "cleanup"}

\* StateManager.add_workflow up to the durable write
add_workflow_memory(s, w, job_ids, job_of) ==
    [s EXCEPT
       !.workflows = PutKey(@, w, Workflow(job_ids)),
       !.workflow_order = AppendNew(@, w),
       !.wjobs = [o \in (DOMAIN @) \cup {<<w, j>> : j \in SeqSet(job_ids)} |->
                     IF o[1] = w THEN job_of[o[2]] ELSE @[o]],
       !.jobs = [j \in (DOMAIN @) \cup SeqSet(job_ids) |->
                     IF j \in SeqSet(job_ids) THEN w ELSE @[j]]]

\* StateManager.add_workflow, called by create_workflow with a new Workflow
add_workflow(s, w, job_ids, job_of) ==
    [add_workflow_memory(s, w, job_ids, job_of) EXCEPT
        !.db = save_jobs(save_workflow(@, w, Workflow(job_ids)), w, job_ids, job_of)]

----------------------------------------------------------------------------
(* Actions: one per handler.  The workers follow WorkerNode.execute_job: for  *)
(* every job_assignment received they send job_status running, then          *)
(* job_status completed or failed, then ready.  A final report may be         *)
(* delivered again (MaxDuplicates times in a run).                            *)

\* a handler returned leaving the state s2; tk = the worker tasks left
Commit(s2, tk) ==
    /\ workflows' = s2.workflows
    /\ workflow_order' = s2.workflow_order
    /\ wjobs' = s2.wjobs
    /\ jobs' = s2.jobs
    /\ workers' = s2.workers
    /\ worker_order' = s2.worker_order
    /\ job_assignments' = s2.job_assignments
    /\ active_connections' = s2.active_connections
    /\ db' = s2.db
    /\ tasks' = tk \cup {<<e[2], e[1], "assigned">> : e \in SeqSet(s2.out)}

\* the workers whose socket write may raise during a handler: only the sockets of
\* idle workers are written to (`extra`: the worker a ready message makes idle)
Writable(extra) == {k \in DOMAIN workers : workers[k].status = "idle"} \cup extra

\* POST /workflows
CreateWorkflow(w, d) ==
    /\ w \notin DOMAIN workflows
    /\ duplicates' = duplicates
    /\ Commit(add_workflow(State, w, DefJobs(d), [j \in SeqSet(DefJobs(d)) |-> DefJob(d, j)]),
              tasks)

\* POST /workflows/{id}/start
StartWorkflow(w) ==
    /\ duplicates' = duplicates
    /\ \E bad \in SUBSET Writable({}) :
           Commit(start_workflow(State, w, bad), tasks)

\* POST /workflows/{id}/cancel
CancelWorkflow(w) ==
    /\ duplicates' = duplicates
    /\ \E bad \in SUBSET Writable({}) :
           Commit(cancel_workflow(State, w, bad), tasks)

\* WorkerRegistry.connect: a worker opens its websocket
Connect(k) ==
    /\ k \notin active_connections
    /\ duplicates' = duplicates
    /\ Commit([State EXCEPT !.active_connections = @ \cup {k}], tasks)

\* register message, sent by a worker once it is connected
RegisterWorker(k) ==
    /\ k \in active_connections
    /\ k \notin DOMAIN workers
    /\ duplicates' = duplicates
    /\ Commit(register_worker(State, k, WorkerCapabilities(k)), tasks)

\* the socket of a worker closes: its process is gone, with the jobs it ran
Disconnect(k) ==
    /\ k \in active_connections
    /\ duplicates' = duplicates
    /\ \E bad \in SUBSET Writable({}) :
           Commit(disconnect(State, k, bad), {t \in tasks : t[1] # k})

\* job_status running: the worker starts a job it was sent
JobStarted(k, j) ==
    /\ <<k, j, "assigned">> \in tasks
    /\ duplicates' = duplicates
    /\ Commit(job_status(State, j, "running", {}),
              (tasks \ {<<k, j, "assigned">>}) \cup {<<k, j, "started">>})

\* job_status completed or failed: the worker reports the end of the job
JobReported(k, j, status) ==
    /\ <<k, j, "started">> \in tasks
    /\ duplicates' = duplicates
    /\ \E bad \in SUBSET Writable({}) :
           Commit(job_status(State, j, status, bad),
                  (tasks \ {<<k, j, "started">>}) \cup {<<k, j, "finished">>})

\* the same, when the report will be delivered once more
JobReportedTwice(k, j, status) ==
    /\ <<k, j, "started">> \in tasks
    /\ duplicates < MaxDuplicates
    /\ duplicates' = duplicates + 1
    /\ \E bad \in SUBSET Writable({}) :
           Commit(job_status(State, j, status, bad),
                  (tasks \ {<<k, j, "started">>}) \cup {<<k, j, status>>})

\* the second delivery of a report
JobReportedAgain(k, j, status) ==
    /\ <<k, j, status>> \in tasks
    /\ duplicates' = duplicates
    /\ \E bad \in SUBSET Writable({}) :
           Commit(job_status(State, j, status, bad),
                  (tasks \ {<<k, j, status>>}) \cup {<<k, j, "finished">>})

\* ready message: the worker is done with a job
Ready(k, j) ==
    /\ <<k, j, "finished">> \in tasks
    /\ duplicates' = duplicates
    /\ \E bad \in SUBSET Writable({k} \cap DOMAIN workers) :
           Commit(ready(State, k, bad), tasks \ {<<k, j, "finished">>})

Init ==
    /\ workflows = <<>>
    /\ workflow_order = <<>>
    /\ wjobs = <<>>
    /\ jobs = <<>>
    /\ workers = <<>>
    /\ worker_order = <<>>
    /\ job_assignments = <<>>
    /\ active_connections = {}
    /\ tasks = {}
    /\ duplicates = 0
    /\ db = NoDb

Next ==
    \/ \E w \in WorkflowIds, d \in Definitions : CreateWorkflow(w, d)
    \/ \E w \in WorkflowIds : StartWorkflow(w)
    \/ \E w \in WorkflowIds : CancelWorkflow(w)
    \/ \E k \in WorkerIds : Connect(k)
    \/ \E k \in WorkerIds : RegisterWorker(k)
    \/ \E k \in WorkerIds : Disconnect(k)
    \/ \E k \in WorkerIds, j \in JobIds : JobStarted(k, j)
    \/ \E k \in WorkerIds, j \in JobIds, status \in {"completed", "failed"} :
           JobReported(k, j, status)
    \/ \E k \in WorkerIds, j \in JobIds, status \in {"completed", "failed"} :
           JobReportedTwice(k, j, status)
    \/ \E k \in WorkerIds, j \in JobIds, status \in {"completed", "failed"} :
           JobReportedAgain(k, j, status)
    \/ \E k \in WorkerIds, j \in JobIds : Ready(k, j)

Spec == Init /\ [][Next]_vars

\* the workers report what they were sent, and say when they are ready
FairSpec ==
    Spec /\ \A k \in WorkerIds :
                /\ WF_vars(\E j \in JobIds : JobStarted(k, j))
                /\ WF_vars(\E j \in JobIds, status \in {"completed", "failed"} :
                               JobReported(k, j, status))
                /\ WF_vars(\E j \in JobIds, status \in {"completed", "failed"} :
                               JobReportedAgain(k, j, status))
                /\ WF_vars(\E j \in JobIds : Ready(k, j))

----------------------------------------------------------------------------
(* Job graphs: the workflows a client may submit over three jobs *)

\* the on_success / on_failure lists of the submitted jobs ("X" is no job)
RefLists == {<<>>} \cup {<<x>> : x \in JobIds \cup {"X"}}

\* one workflow over the jobs A, B, C with any successor lists has been
\* created, and worker k1 has registered
InitGraph ==
    /\ workflows = [w \in {"w1"} |-> Workflow(<<"A", "B", "C">>)]
    /\ workflow_order = <<"w1">>
    /\ wjobs \in [{"w1"} \X JobIds ->
                    {Job("validation", os, of, FALSE) : os \in RefLists, of \in RefLists}]
    /\ jobs = [j \in JobIds |-> "w1"]
    /\ workers = [k \in {"k1"} |-> Worker(WorkerCapabilities("k1"))]
    /\ worker_order = <<"k1">>
    /\ job_assignments = <<>>
    /\ active_connections = {"k1"}
    /\ tasks = {}
    /\ duplicates = 0
    /\ db = NoDb

NextGraph ==
    \/ \E w \in WorkflowIds : StartWorkflow(w)
    \/ \E w \in WorkflowIds : CancelWorkflow(w)
    \/ \E k \in WorkerIds, j \in JobIds : JobStarted(k, j)
    \/ \E k \in WorkerIds, j \in JobIds : JobReported(k, j, "completed")

SpecGraph == InitGraph /\ [][NextGraph]_vars

\* the job lists of the workflows submitted to be started
JobLists == {<<>>, <<"A">>, <<"A", "B">>, <<"A", "B", "C">>, <<"C", "B", "A">>}

\* one workflow over one of the job lists, with any successor lists, has been
\* created, and the workers k1 and k2 have registered, in this order
InitStart ==
    /\ \E job_ids \in JobLists :
           /\ workflows = [w \in {"w1"} |-> Workflow(job_ids)]
           /\ wjobs \in [{"w1"} \X SeqSet(job_ids) ->
                           {Job("validation", os, of, FALSE) :
                                os \in RefLists, of \in RefLists}]
           /\ jobs = [j \in SeqSet(job_ids) |-> "w1"]
    /\ workflow_order = <<"w1">>
    /\ workers = [k \in WorkerIds |-> Worker(WorkerCapabilities(k))]
    /\ worker_order = <<"k1", "k2">>
    /\ job_assignments = <<>>
    /\ active_connections = WorkerIds
    /\ tasks = {}
    /\ duplicates = 0
    /\ db = NoDb

NextStart ==
    \/ \E w \in WorkflowIds : StartWorkflow(w)
    \/ \E k \in WorkerIds, j \in JobIds : JobStarted(k, j)

SpecStart == InitStart /\ [][NextStart]_vars

\* the started workflows run with no failure: every job sent is reported
\* completed
NextJoin ==
    \/ \E w \in WorkflowIds : StartWorkflow(w)
    \/ \E k \in WorkerIds, j \in JobIds : JobStarted(k, j)
    \/ \E k \in WorkerIds, j \in JobIds : JobReported(k, j, "completed")
    \/ \E k \in WorkerIds, j \in JobIds : Ready(k, j)

SpecJoin == InitStart /\ [][NextJoin]_vars

\* the workflows run end to end: a linear one and one with a success branch,
\* a failure branch and a cleanup job
Scenarios == {"linear", "branch"}

\* a scenario's workflow was created and one or two workers have registered
InitScenario ==
    /\ \E d \in Scenarios :
           LET s == add_workflow([workflows |-> <<>>, workflow_order |-> <<>>,
                                  wjobs |-> <<>>, jobs |-> <<>>,
                                  workers |-> <<>>, worker_order |-> <<>>,
                                  job_assignments |-> <<>>,
                                  active_connections |-> {}, out |-> <<>>,
                                  db |-> NoDb],
                                 "w1", DefJobs(d), [j \in SeqSet(DefJobs(d)) |-> DefJob(d, j)])
           IN /\ workflows = s.workflows
              /\ workflow_order = s.workflow_order
              /\ wjobs = s.wjobs
              /\ jobs = s.jobs
    /\ worker_order \in {<<"k1">>, <<"k1", "k2">>}
    /\ workers = [k \in SeqSet(worker_order) |-> Worker(WorkerCapabilities(k))]
    /\ job_assignments = <<>>
    /\ active_connections = SeqSet(worker_order)
    /\ tasks = {}
    /\ duplicates = 0
    /\ db = NoDb

\* every job sent is reported once, completed or failed, and the worker then
\* says it is ready
NextScenario ==
    \/ \E w \in WorkflowIds : StartWorkflow(w)
    \/ \E k \in WorkerIds, j \in JobIds : JobStarted(k, j)
    \/ \E k \in WorkerIds, j \in JobIds, status \in {"completed", "failed"} :
           JobReported(k, j, status)
    \/ \E k \in WorkerIds, j \in JobIds : Ready(k, j)

SpecScenario == InitScenario /\ [][NextScenario]_vars

\* the workflows with a failure branch to an ordinary job: C runs when A
\* failed ("fallback"), or when A completed or B failed ("shared")
Recoveries == {"fallback", "shared"}

\* a workflow with a failure branch was created and one or two workers have
\* registered
InitRecovery ==
    /\ \E d \in Recoveries :
           LET s == add_workflow([workflows |-> <<>>, workflow_order |-> <<>>,
                                  wjobs |-> <<>>, jobs |-> <<>>,
                                  workers |-> <<>>, worker_order |-> <<>>,
                                  job_assignments |-> <<>>,
                                  active_connections |-> {}, out |-> <<>>,
                                  db |-> NoDb],
                                 "w1", DefJobs(d), [j \in SeqSet(DefJobs(d)) |-> DefJob(d, j)])
           IN /\ workflows = s.workflows
              /\ workflow_order = s.workflow_order
              /\ wjobs = s.wjobs
              /\ jobs = s.jobs
    /\ worker_order \in {<<"k1">>, <<"k1", "k2">>}
    /\ workers = [k \in SeqSet(worker_order) |-> Worker(WorkerCapabilities(k))]
    /\ job_assignments = <<>>
    /\ active_connections = SeqSet(worker_order)
    /\ tasks = {}
    /\ duplicates = 0
    /\ db = NoDb

\* the jobs are reported, a report may be delivered twice, a worker may be lost
NextRecovery ==
    \/ \E w \in WorkflowIds : StartWorkflow(w)
    \/ \E k \in WorkerIds, j \in JobIds : JobStarted(k, j)
    \/ \E k \in WorkerIds, j \in JobIds, status \in {"completed", "failed"} :
           JobReported(k, j, status)
    \/ \E k \in WorkerIds, j \in JobIds, status \in {"completed", "failed"} :
           JobReportedTwice(k, j, status)
    \/ \E k \in WorkerIds, j \in JobIds, status \in {"completed", "failed"} :
           JobReportedAgain(k, j, status)
    \/ \E k \in WorkerIds, j \in JobIds : Ready(k, j)
    \/ \E k \in WorkerIds : Disconnect(k)

SpecRecovery == InitRecovery /\ [][NextRecovery]_vars

\* two workflows were created from the same definition, so that their jobs
\* carry the same ids, and two workers have registered
InitTwo ==
    /\ LET s0 == [workflows |-> <<>>, workflow_order |-> <<>>,
                  wjobs |-> <<>>, jobs |-> <<>>,
                  workers |-> <<>>, worker_order |-> <<>>,
                  job_assignments |-> <<>>,
                  active_connections |-> {}, out |-> <<>>, db |-> NoDb]
           job_of == [j \in SeqSet(DefJobs("linear")) |-> DefJob("linear", j)]
           s == add_workflow(add_workflow(s0, "w1", DefJobs("linear"), job_of),
                             "w2", DefJobs("linear"), job_of)
       IN /\ workflows = s.workflows
          /\ workflow_order = s.workflow_order
          /\ wjobs = s.wjobs
          /\ jobs = s.jobs
    /\ worker_order = <<"k1", "k2">>
    /\ workers = [k \in WorkerIds |-> Worker(WorkerCapabilities(k))]
    /\ job_assignments = <<>>
    /\ active_connections = WorkerIds
    /\ tasks = {}
    /\ duplicates = 0
    /\ db = NoDb

\* either workflow is started, jobs are reported once, workers may be lost
NextTwo ==
    \/ \E w \in {"w1", "w2"} : StartWorkflow(w)
    \/ \E k \in WorkerIds, j \in JobIds : JobStarted(k, j)
    \/ \E k \in WorkerIds, j \in JobIds, status \in {"completed", "failed"} :
           JobReported(k, j, status)
    \/ \E k \in WorkerIds, j \in JobIds : Ready(k, j)
    \/ \E k \in WorkerIds : Disconnect(k)

SpecTwo == InitTwo /\ [][NextTwo]_vars

\* WorkerNode.execute_job sends running, then the final status, then ready
FairScenario ==
    SpecScenario /\ \A k \in WorkerIds :
        /\ WF_vars(\E j \in JobIds : JobStarted(k, j))
        /\ WF_vars(\E j \in JobIds, status \in {"completed", "failed"} :
                       JobReported(k, j, status))
        /\ WF_vars(\E j \in JobIds : Ready(k, j))

----------------------------------------------------------------------------
(* The coordinator with DATABASE_URL set: every StateManager mutation also
   writes its row, and a restart rebuilds the memory from the rows.  Rows come
   back in insertion order. *)

\* StateManager.add_workflow when one of its durable writes raises: n writes
\* were committed before it (the workflow row first, then one row per job)
add_workflow_fails(s, w, job_ids, job_of, n) ==
    [add_workflow_memory(s, w, job_ids, job_of) EXCEPT
        !.db = IF n = 0 THEN @
               ELSE save_jobs(save_workflow(@, w, Workflow(job_ids)), w,
                              SubSeq(job_ids, 1, n - 1), job_of)]

\* the ids of the job rows of workflow w ("where workflow_id == w")
jobs_by_workflow(d, w) == SelectSeq(d.job_order, LAMBDA j : d.jobs[j].workflow_id = w)

\* StateManager._rebuild_from_db on the fresh StateManager of init_state_manager
rebuild_from_db(d) ==
    [workflows |-> [w \in DOMAIN d.workflows |->
                        [status |-> d.workflows[w].status,
                         jobs |-> jobs_by_workflow(d, w),
                         current_jobs |-> d.workflows[w].current_jobs,
                         completed_jobs |-> d.workflows[w].completed_jobs,
                         failed_jobs |-> d.workflows[w].failed_jobs]],
     workflow_order |-> d.workflow_order,
     wjobs |-> [o \in {<<d.jobs[j].workflow_id, j>> :
                          j \in {i \in DOMAIN d.jobs :
                                    d.jobs[i].workflow_id \in DOMAIN d.workflows}} |->
                    d.jobs[o[2]].job],
     jobs |-> [j \in {i \in DOMAIN d.jobs :
                         d.jobs[i].workflow_id \in DOMAIN d.workflows} |->
                   d.jobs[j].workflow_id],
     workers |-> d.workers,
     worker_order |-> d.worker_order,
     job_assignments |-> d.job_assignments,
     active_connections |-> {},
     out |-> <<>>,
     db |-> d]

\* POST /workflows answered 500: a durable write of add_workflow raised
CreateWorkflowWriteFails(w, d, n) ==
    /\ w \notin DOMAIN workflows
    /\ db.postgres
    /\ n \in 0..Len(DefJobs(d))
    /\ duplicates' = duplicates
    /\ Commit(add_workflow_fails(State, w, DefJobs(d),
                                 [j \in SeqSet(DefJobs(d)) |-> DefJob(d, j)], n),
              tasks)

\* the coordinator process is replaced: lifespan runs init_state_manager on an
\* empty memory; every socket is closed, and a WorkerNode whose socket closed
\* leaves its message loop for good
Restart ==
    /\ db.postgres
    /\ duplicates' = duplicates
    /\ Commit(rebuild_from_db(db), {})

\* a new WorkerNode process with the id of a worker found in the rows connects
Reconnect(k) ==
    /\ k \in DOMAIN workers
    /\ k \notin active_connections
    /\ duplicates' = duplicates
    /\ Commit([State EXCEPT !.active_connections = @ \cup {k}],
              tasks \cup {<<k, None, "connected">>})

\* WorkerNode.connect sends register right after the socket opens
RegisterAgain(k) ==
    /\ <<k, None, "connected">> \in tasks
    /\ duplicates' = duplicates
    /\ Commit(register_worker(State, k, WorkerCapabilities(k)),
              tasks \ {<<k, None, "connected">>})

\* a WorkerNode process with an id the coordinator does not know connects
FirstConnect(k) ==
    /\ k \notin DOMAIN workers
    /\ Connect(k)

InitPersist ==
    /\ workflows = <<>>
    /\ workflow_order = <<>>
    /\ wjobs = <<>>
    /\ jobs = <<>>
    /\ workers = <<>>
    /\ worker_order = <<>>
    /\ job_assignments = <<>>
    /\ active_connections = {}
    /\ tasks = {}
    /\ duplicates = 0
    /\ db = EmptyDb

\* the bodies posted to /workflows: all defaults, or a job whose status field
\* says running (the request model takes every field of Job)
Posted == {"linear", "snapshot"}

\* one worker id is enough to lose what a restart loses
NextPersist ==
    \/ \E w \in WorkflowIds, d \in Posted : CreateWorkflow(w, d)
    \/ \E w \in WorkflowIds, n \in 0..Len(DefJobs("linear")) :
           CreateWorkflowWriteFails(w, "linear", n)
    \/ \E w \in WorkflowIds : StartWorkflow(w)
    \/ FirstConnect("k1")
    \/ RegisterWorker("k1")
    \/ Reconnect("k1")
    \/ RegisterAgain("k1")
    \/ Disconnect("k1")
    \/ \E j \in JobIds : JobStarted("k1", j)
    \/ \E j \in JobIds, status \in {"completed", "failed"} :
           JobReported("k1", j, status)
    \/ \E j \in JobIds : Ready("k1", j)
    \/ Restart

SpecPersist == InitPersist /\ [][NextPersist]_vars

----------------------------------------------------------------------------
(* The liveness monitor.  The age of a heartbeat (current_time minus
   worker.last_heartbeat) is an input of the wake-up, in whole seconds. *)

\* "if time_since_heartbeat > 60"
HeartbeatTimeout == 60

\* the ages the monitor may find: around the timeout, and around one and two
\* days (a worker rebuilt from its row after a restart, a host that was
\* suspended)
HeartbeatAges ==
    {0, 59, 60, 61, 3600, 86399, 86400, 86430, 86460, 86461, 172800, 172861}

\* timedelta.seconds: the seconds field of the normalised (days, seconds,
\* microseconds), between 0 and 86399
timedelta_seconds(age) == age % 86400

\* the loop of check_worker_health over list(self.state.workers.items())
RECURSIVE check_each(_, _, _, _)
check_each(s, ks, ages, bad) ==
    IF ks = <<>> THEN s
    ELSE LET k == Head(ks)
             s1 == IF timedelta_seconds(ages[k]) > HeartbeatTimeout
                   THEN disconnect(s, k, bad)
                   ELSE s
         IN check_each(s1, Tail(ks), ages, bad)

\* WorkerRegistry.check_worker_health, one wake-up
check_worker_health(s, ages, bad) == check_each(s, s.worker_order, ages, bad)

\* the monitor wakes up; a worker it removes is taken to be gone with its jobs
CheckWorkerHealth ==
    /\ DOMAIN workers # {}
    /\ duplicates' = duplicates
    /\ \E ages \in [DOMAIN workers -> HeartbeatAges] : \E bad \in SUBSET Writable({}) :
           LET s2 == check_worker_health(State, ages, bad)
           IN Commit(s2, {t \in tasks : t[1] \in DOMAIN s2.workers})

\* the scenario runs with the monitor
NextHealth ==
    \/ \E w \in WorkflowIds : StartWorkflow(w)
    \/ \E k \in WorkerIds, j \in JobIds : JobStarted(k, j)
    \/ \E k \in WorkerIds, j \in JobIds, status \in {"completed", "failed"} :
           JobReported(k, j, status)
    \/ \E k \in WorkerIds, j \in JobIds : Ready(k, j)
    \/ CheckWorkerHealth

SpecHealth == InitScenario /\ [][NextHealth]_vars

----------------------------------------------------------------------------
(* Suspension points.  A handler is a coroutine: it runs alone up to an
   "await" that yields to the event loop, and without DATABASE_URL the only
   such awaits of the engine are the socket writes of Scheduler.send_message
   (the StateManager coroutines return without yielding).  Here a handler is
   cut at those writes: the part before a write, and the part from the
   outcome of the write to the next write or to the return. *)

\* Scheduler.assign_job and the rollback of _schedule_job once the write has
\* returned.  o = the Job object _schedule_job holds, live = the Worker object
\* assign_job holds is still the one in state.workers
schedule_end(s, w, o, worker_id, live, success) ==
    IF success
    THEN [s EXCEPT !.out = Append(@, <<o[2], worker_id>>),
                   !.wjobs[o].worker_id = worker_id]
    ELSE
      LET s1 == IF live
                THEN [s EXCEPT !.workers[worker_id].status = "idle",
                               !.workers[worker_id].current_job_id = None]
                ELSE s
          s2 == state_unassign_job(s1, o[2])
      IN [s2 EXCEPT !.wjobs[o].status = "pending",
                    !.workflows[w].current_jobs = RemoveFirst(@, o[2])]

\* schedule_begin without "job.status = JobStatus.RUNNING" before the write
schedule_begin_keeps_status(s, w, job_id) ==
    IF w \notin DOMAIN s.workflows \/ ~has_job(s, job_id)
    THEN [s |-> s, worker_id |-> None]
    ELSE
      LET o == get_job(s, job_id) IN
      IF s.wjobs[o].status \in {"running", "completed"}
      THEN [s |-> s, worker_id |-> None]
      ELSE
        LET s1 == [s EXCEPT
                     !.workflows[w].current_jobs = AppendNew(@, job_id)]
            suitable == suitable_workers(s1, s.wjobs[o].type)
        IN IF suitable = <<>>
           THEN [s |-> [s1 EXCEPT
                          !.wjobs[o].status = "pending",
                          !.workflows[w].current_jobs = RemoveFirst(@, job_id)],
                 worker_id |-> None]
           ELSE
             LET worker_id == suitable[1]
                 s2 == state_assign_job([s1 EXCEPT
                                           !.workers[worker_id].status = "busy",
                                           !.workers[worker_id].current_job_id = job_id],
                                        job_id, worker_id)
             IN IF worker_id \notin s2.active_connections
                THEN [s |-> schedule_end(s2, w, o, worker_id, TRUE, FALSE),
                      worker_id |-> None]
                ELSE [s |-> s2, worker_id |-> worker_id]

\* _schedule_job up to the socket write of assign_job.  worker_id = the worker
\* whose socket is being written, None when the call has returned
schedule_begin(s, w, job_id) ==
    IF w \notin DOMAIN s.workflows \/ ~has_job(s, job_id)
    THEN [s |-> s, worker_id |-> None]
    ELSE
      LET o == get_job(s, job_id) IN
      IF s.wjobs[o].status \in {"running", "completed"}
      THEN [s |-> s, worker_id |-> None]
      ELSE
        LET s1 == [s EXCEPT
                     !.wjobs[o].status = "running",
                     !.workflows[w].current_jobs = AppendNew(@, job_id)]
            suitable == suitable_workers(s1, s.wjobs[o].type)
        IN IF suitable = <<>>
           THEN [s |-> [s1 EXCEPT
                          !.wjobs[o].status = "pending",
                          !.workflows[w].current_jobs = RemoveFirst(@, job_id)],
                 worker_id |-> None]
           ELSE
             LET worker_id == suitable[1]
                 s2 == state_assign_job([s1 EXCEPT
                                           !.workers[worker_id].status = "busy",
                                           !.workers[worker_id].current_job_id = job_id],
                                        job_id, worker_id)
             IN IF worker_id \notin s2.active_connections
                THEN [s |-> schedule_end(s2, w, o, worker_id, TRUE, FALSE),
                      worker_id |-> None]
                ELSE [s |-> s2, worker_id |-> worker_id]

\* what a handler has left to do after the _schedule_job call it is in:
\*   "on_success"  the loop of handle_job_completion, then
\*                 _check_workflow_completion
\*   "always_run"  the loop of _run_always_run_jobs called by
\*                 _check_workflow_completion, then the final status
\*   "on_failure"  the loop of handle_job_failure over job.on_failure
\*   "cleanup"     the loop of _run_always_run_jobs called by _fail_workflow
\*   "retry"       the retry branch of handle_job_failure: nothing
Guarded == {"on_success", "on_failure"}

\* the handler is suspended in the write of job o to worker_id
Suspended(s, w, o, worker_id, kind, rest) ==
    [s |-> s,
     susp |-> <<[w |-> w, o |-> o, worker_id |-> worker_id, kind |-> kind,
                 rest |-> rest, live |-> TRUE]>>]

\* the handler has returned
Returned(s) == [s |-> s, susp |-> <<>>]

\* a handler runs the rest of a loop of _schedule_job calls and what follows
\* the loop, up to its next socket write
RECURSIVE run_rest(_, _, _, _)
run_rest(s, w, kind, ids) ==
    IF ids # <<>>
    THEN
      LET j == Head(ids) IN
      IF kind \in Guarded => can_schedule_job(s, w, j)
      THEN LET r == schedule_begin(s, w, j) IN
           IF r.worker_id # None
           THEN Suspended(r.s, w, get_job(s, j), r.worker_id, kind, Tail(ids))
           ELSE run_rest(r.s, w, kind, Tail(ids))
      ELSE run_rest(s, w, kind, Tail(ids))
    ELSE IF kind = "on_success"
    THEN
      \* _check_workflow_completion
      LET wf == s.workflows[w] IN
      IF wf.current_jobs # <<>> THEN Returned(s)
      ELSE
        LET can_schedule_more ==
                \E j \in SeqSet(wf.jobs) :
                    /\ ~InSeq(j, wf.completed_jobs) /\ ~InSeq(j, wf.failed_jobs)
                    /\ ~s.wjobs[<<w, j>>].always_run
                    /\ can_schedule_job(s, w, j)
        IN IF can_schedule_more THEN Returned(s)
           ELSE
             LET s1 == mark_skipped_jobs(s, w)
                 always_run_jobs ==
                     SelectSeq(s1.workflows[w].jobs,
                               LAMBDA j : s1.wjobs[<<w, j>>].always_run
                                          /\ s1.wjobs[<<w, j>>].status
                                                 \notin {"completed", "running"})
             IN run_rest(s1, w, "always_run", always_run_jobs)
    ELSE IF kind = "always_run"
    THEN Returned([s EXCEPT !.workflows[w].status =
                       IF s.workflows[w].failed_jobs # <<>> THEN "failed"
                       ELSE "completed"])
    ELSE Returned(s)

\* the write a handler was suspended in has returned
resume(s, c, success) ==
    run_rest(schedule_end(s, c.w, c.o, c.worker_id, c.live, success),
             c.w, c.kind, c.rest)

\* WorkflowEngine.handle_job_completion up to its first socket write
completion_begin(s, job_id) ==
    IF ~has_job(s, job_id) THEN Returned(s)
    ELSE
      LET o == get_job(s, job_id)
          s1 == [s EXCEPT !.wjobs[o].status = "completed", !.wjobs[o].result = "set"]
          w == find_workflow_for_job(s1, job_id)
      IN IF w = None THEN Returned(s1)
         ELSE run_rest([s1 EXCEPT
                          !.workflows[w].completed_jobs = AppendNew(@, job_id),
                          !.workflows[w].current_jobs = RemoveFirst(@, job_id)],
                       w, "on_success", s1.wjobs[o].on_success)

\* WorkflowEngine.handle_job_failure up to its first socket write
failure_begin(s, job_id, error) ==
    IF ~has_job(s, job_id) THEN Returned(s)
    ELSE
      LET o == get_job(s, job_id)
          job == s.wjobs[o]
          w == find_workflow_for_job(s, job_id)
      IN IF can_retry(job)
         THEN
           LET s1 == [s EXCEPT !.wjobs[o] = retry_job(@, error)]
           IN IF w # None THEN run_rest(s1, w, "retry", <<job_id>>)
              ELSE Returned(s1)
         ELSE
           LET s1 == [s EXCEPT !.wjobs[o].status = "failed", !.wjobs[o].error = error]
           IN IF w = None THEN Returned(s1)
              ELSE
                LET s2 == [s1 EXCEPT
                             !.workflows[w].failed_jobs = AppendNew(@, job_id),
                             !.workflows[w].current_jobs = RemoveFirst(@, job_id)]
                IN IF job.on_failure # <<>>
                   THEN run_rest(s2, w, "on_failure", job.on_failure)
                   ELSE
                     LET s3 == [s2 EXCEPT !.workflows[w].status = "failed"]
                     IN run_rest(s3, w, "cleanup",
                                 SelectSeq(s3.workflows[w].jobs,
                                           LAMBDA j : s3.wjobs[<<w, j>>].always_run
                                                      /\ s3.wjobs[<<w, j>>].status
                                                             \notin {"completed", "running"}))

\* websocket_endpoint, job_status completed or failed, up to the first write
report_begin(s, job_id, status) ==
    IF status = "completed" THEN completion_begin(s, job_id)
    ELSE failure_begin(s, job_id, ErrorMessage)

\* a handler runs from a suspension to its return when no other handler runs
\* in between; the write to a worker of `bad` raises
RECURSIVE run_alone(_, _)
run_alone(r, bad) ==
    IF r.susp = <<>> THEN r.s
    ELSE run_alone(resume(r.s, r.susp[1], send_message(r.s, r.susp[1].worker_id, bad)),
                   bad)

\* cutting a handler at its writes does not change what it does when it runs
\* alone
CutHandlersAgree ==
    \A j \in DOMAIN jobs : \A status \in {"completed", "failed"} :
        \A bad \in SUBSET DOMAIN workers :
            run_alone(report_begin(State, j, status), bad) = job_status(State, j, status, bad)

\* the tasks of the event loop that are suspended in a socket write are kept
\* with the worker tasks: <<worker id, job id, "sending", c>> is the write of
\* the job_assignment of the job to the worker, c what the handler has left to
\* do, and c.from the report it handles, <<worker id, job id, "reporting">>
Sending == {t \in tasks : t[3] = "sending"}

\* a handler got to a socket write or returned; `from` = the report it handles
Yield(r, from, tk) ==
    IF r.susp = <<>>
    THEN Commit(r.s, tk \cup {<<from[1], from[2], "finished">>})
    ELSE LET c == r.susp[1] IN
         Commit(r.s, tk \cup {<<from[1], from[2], "reporting">>,
                              <<c.worker_id, c.o[2], "sending",
                                [c EXCEPT !.w = <<@, from>>]>>})

\* job_status completed or failed: the handler runs to its first socket write
ReportBegins(k, j, status) ==
    /\ <<k, j, "started">> \in tasks
    /\ duplicates' = duplicates
    /\ Yield(report_begin(State, j, status), <<k, j>>, tasks \ {<<k, j, "started">>})

\* a suspended socket write returns: it raises when the worker was
\* disconnected meanwhile, and may raise otherwise
WriteReturns(t, success) ==
    /\ t \in Sending
    /\ success => t[4].live
    /\ duplicates' = duplicates
    /\ LET from == t[4].w[2]
           c == [t[4] EXCEPT !.w = @[1]]
       IN Yield(resume(State, c, success), from,
                tasks \ {t, <<from[1], from[2], "reporting">>})

\* the socket of a worker closes while the endpoint waits for its next
\* message: the writes to it that are suspended hold a Worker object that
\* is no longer in state.workers
DisconnectDuringWrite(k) ==
    /\ k \in active_connections
    /\ \E t \in Sending : t[1] = k
    /\ \A t \in tasks : ~(t[1] = k /\ t[3] = "reporting")
    /\ duplicates' = duplicates
    /\ \E bad \in SUBSET Writable({}) :
           Commit(disconnect(State, k, bad),
                  {t \in tasks : t[1] # k}
                  \cup {<<t[1], t[2], t[3], [t[4] EXCEPT !.live = FALSE]>> :
                            t \in {u \in Sending : u[1] = k}})

\* the workers of the runs with suspended writes
RaceWorkers == <<"k1", "k2", "k3">>

\* the workflows of those runs: A and B run side by side, C follows either
\* ("join") or is the always_run job ("tail")
Races == {"join", "tail"}

\* a workflow of ds was created and the workers ks have registered, in order
InitRun(ds, ks) ==
    /\ \E d \in ds :
           LET s == add_workflow([workflows |-> <<>>, workflow_order |-> <<>>,
                                  wjobs |-> <<>>, jobs |-> <<>>,
                                  workers |-> <<>>, worker_order |-> <<>>,
                                  job_assignments |-> <<>>,
                                  active_connections |-> {}, out |-> <<>>,
                                  db |-> NoDb],
                                 "w1", DefJobs(d), [j \in SeqSet(DefJobs(d)) |-> DefJob(d, j)])
           IN /\ workflows = s.workflows
              /\ workflow_order = s.workflow_order
              /\ wjobs = s.wjobs
              /\ jobs = s.jobs
    /\ worker_order = ks
    /\ workers = [k \in SeqSet(worker_order) |-> Worker(WorkerCapabilities(k))]
    /\ job_assignments = <<>>
    /\ active_connections = SeqSet(worker_order)
    /\ tasks = {}
    /\ duplicates = 0
    /\ db = NoDb

InitRace == InitRun(Races, RaceWorkers)

NextRace ==
    \/ \E w \in WorkflowIds : StartWorkflow(w)
    \/ \E k \in SeqSet(RaceWorkers), j \in JobIds : JobStarted(k, j)
    \/ \E k \in SeqSet(RaceWorkers), j \in JobIds, status \in {"completed", "failed"} :
           ReportBegins(k, j, status)
    \/ \E t \in Sending, success \in BOOLEAN : WriteReturns(t, success)
    \/ \E k \in SeqSet(RaceWorkers), j \in JobIds : Ready(k, j)
    \/ \E k \in SeqSet(RaceWorkers) : DisconnectDuringWrite(k)

SpecRace == InitRace /\ [][NextRace]_vars

\* a worker process is started again under the id of a worker that was
\* disconnected: it connects and registers
Rejoin(k) ==
    /\ k \notin active_connections
    /\ duplicates' = duplicates
    /\ Commit(register_worker([State EXCEPT !.active_connections = @ \cup {k}],
                               k, WorkerCapabilities(k)),
              tasks)

InitRejoin == InitRun({"join"}, RaceWorkers)

NextRejoin ==
    \/ NextRace
    \/ \E k \in SeqSet(RaceWorkers) : Rejoin(k)

SpecRejoin == InitRejoin /\ [][NextRejoin]_vars

\* runs with four workers in which every job sent is reported completed: two
\* workers report while two are idle
FanWorkers == <<"k1", "k2", "k3", "k4">>

FanJobs == {"A", "B", "C", "D"}

\* A and B run side by side and are followed by C and by D ("fan"), or both
\* by C ("join")
Fans == {"fan", "join"}

InitFan == InitRun(Fans, FanWorkers)

NextFan ==
    \/ \E w \in WorkflowIds : StartWorkflow(w)
    \/ \E k \in SeqSet(FanWorkers), j \in FanJobs : JobStarted(k, j)
    \/ \E k \in SeqSet(FanWorkers), j \in FanJobs : ReportBegins(k, j, "completed")
    \/ \E t \in Sending, success \in BOOLEAN : WriteReturns(t, success)
    \/ \E k \in SeqSet(FanWorkers), j \in FanJobs : Ready(k, j)

SpecFan == InitFan /\ [][NextFan]_vars

----------------------------------------------------------------------------
(* Properties *)

\* the Job object registered under a job id, and the workflow that holds it
registered_job(j) == wjobs[get_job(State, j)]
workflow_of(j) == get_job(State, j)[1]

\* the sockets whose write may raise while a handler runs
Sockets == SUBSET DOMAIN workers

\* the workflow statuses that are final
TerminalStatus == {"completed", "failed", "cancelled"}

\* C1 (P1, disjointness): after every handler, the lists current_jobs,
\* completed_jobs and failed_jobs of every workflow are pairwise disjoint.
P1_Disjoint ==
    \A w \in DOMAIN workflows :
        LET wf == workflows[w] IN
        /\ SeqSet(wf.current_jobs) \cap SeqSet(wf.completed_jobs) = {}
        /\ SeqSet(wf.current_jobs) \cap SeqSet(wf.failed_jobs) = {}
        /\ SeqSet(wf.completed_jobs) \cap SeqSet(wf.failed_jobs) = {}

\* C2 (P2, assignment consistency): after every handler, every entry (j, k) of
\* the assignment map has worker k busy with current_job_id = j, and job j
\* running or retrying with worker_id = k.
P2_AssignmentConsistency ==
    \A e \in SeqSet(job_assignments) :
        LET j == e[1]
            k == e[2]
        IN /\ k \in DOMAIN workers
           /\ workers[k].status = "busy"
           /\ workers[k].current_job_id = j
           /\ has_job(State, j)
           /\ registered_job(j).worker_id = k
           /\ registered_job(j).status \in {"running", "retrying"}

\* C3 (P3, terminal monotonicity): once the status of a workflow is completed,
\* failed or cancelled, no step changes it.
P3_TerminalMonotonic ==
    [][\A w \in DOMAIN workflows :
           workflows[w].status \in TerminalStatus
               => /\ w \in DOMAIN workflows'
                  /\ workflows'[w].status = workflows[w].status]_vars

\* the step handles a failure of the job registered as j: a failed report for
\* it, or the disconnection of a worker
FailureHandled(j) ==
    \/ \E k \in WorkerIds : JobReported(k, j, "failed")
    \/ \E k \in WorkerIds : JobReportedTwice(k, j, "failed")
    \/ \E k \in WorkerIds : JobReportedAgain(k, j, "failed")
    \/ \E k \in WorkerIds : Disconnect(k)

\* C4 (P4, retry bound): every job has retry_count <= max_retries; a step
\* changes the retry_count of a job only by handling a failure of it, by one,
\* from a value below max_retries.
P4_RetryBound ==
    /\ [](\A o \in DOMAIN wjobs : wjobs[o].retry_count <= wjobs[o].max_retries)
    /\ [][\A o \in DOMAIN wjobs :
              (o \in DOMAIN wjobs' /\ wjobs'[o].retry_count # wjobs[o].retry_count)
                  => /\ wjobs'[o].retry_count = wjobs[o].retry_count + 1
                     /\ wjobs[o].retry_count < wjobs[o].max_retries
                     /\ FailureHandled(o[2])]_vars

\* a job is at its retry bound after a failure used up the retry
P4_Witness ==
    \E o \in DOMAIN wjobs :
        /\ wjobs[o].retry_count = wjobs[o].max_retries
        /\ wjobs[o].max_retries > 0
        /\ wjobs[o].status = "failed"

\* C5 (P4, second half), as stated: whenever a job is failed with an empty
\* on_failure list, its workflow eventually has status failed.
P4_FailedJobFailsWorkflow ==
    \A o \in WorkflowIds \X JobIds :
        (o \in DOMAIN wjobs /\ wjobs[o].status = "failed" /\ wjobs[o].on_failure = <<>>)
            ~> (o[1] \in DOMAIN workflows /\ workflows[o[1]].status = "failed")

\* C5, amended: after every handler, a job that is failed other than by the
\* cancellation of its workflow, with an empty on_failure list, has its
\* workflow in status failed.
P4_FailedJobFailsWorkflowUnlessCancelled ==
    \A o \in DOMAIN wjobs :
        (/\ wjobs[o].status = "failed"
         /\ wjobs[o].on_failure = <<>>
         /\ wjobs[o].error # "Workflow cancelled")
            => workflows[o[1]].status = "failed"

\* a job without on_failure successors has used up its retries and failed
P4_FailedJobWitness ==
    \E o \in DOMAIN wjobs :
        /\ wjobs[o].status = "failed"
        /\ wjobs[o].on_failure = <<>>
        /\ wjobs[o].error = ErrorMessage
        /\ wjobs[o].retry_count = wjobs[o].max_retries
        /\ workflows[o[1]].status = "failed"

\* the successor edges of workflow w
Edges(w) == {<<p, c>> \in SeqSet(workflows[w].jobs) \X (JobIds \cup {"X"}) :
                 c \in refs(State, w, p)}

\* a path of 1..n edges leads from a to b
RECURSIVE Reach(_, _, _, _)
Reach(E, a, b, n) ==
    /\ n > 0
    /\ \/ <<a, b>> \in E
       \/ \E e \in E : e[1] = a /\ Reach(E, e[2], b, n - 1)

\* no cycle (self-loops included) and no reference to an id that is not a job
GraphSound(w) ==
    LET ids == SeqSet(workflows[w].jobs) IN
    /\ \A e \in Edges(w) : e[2] \in ids
    /\ \A j \in ids : ~Reach(Edges(w), j, j, Cardinality(ids))

\* a job of workflow w has been sent to a worker
Dispatched(w) ==
    \/ \E t \in tasks : t[2] \in SeqSet(workflows[w].jobs)
    \/ \E j \in SeqSet(workflows[w].jobs) : wjobs[<<w, j>>].status # "pending"

\* C6 (P5, graph soundness): a workflow is running, or has a job dispatched,
\* only if its graph is sound; start_workflow on a pending workflow with an
\* unsound graph dispatches nothing, leaves the jobs alone and fails the
\* workflow, and on a sound graph it runs or dispatches only then.
P5_GraphSoundness ==
    \A w \in DOMAIN workflows :
        /\ (workflows[w].status = "running" \/ Dispatched(w)) => GraphSound(w)
        /\ \A bad \in Sockets :
               LET s2 == start_workflow(State, w, bad) IN
               /\ (s2.out # <<>> \/ s2.workflows[w].status = "running")
                      => GraphSound(w)
               /\ (workflows[w].status = "pending" /\ ~GraphSound(w))
                      => /\ s2.out = <<>>
                         /\ s2.wjobs = wjobs
                         /\ s2.workflows[w].status = "failed"

\* start_workflow refused a workflow whose only flaw is a cycle through all
\* three jobs
P5_CycleRefused ==
    \E w \in DOMAIN workflows :
        /\ workflows[w].status = "failed"
        /\ ~Dispatched(w)
        /\ Edges(w) = {<<"A", "B">>, <<"B", "C">>, <<"C", "A">>}

\* the job registered as j is not always_run and is accounted for: in exactly
\* one of completed_jobs, failed_jobs, status skipped, and not pending,
\* retrying or running
Accounted(wf, job, j) ==
    /\ Cardinality({x \in {"completed", "failed", "skipped"} :
                       \/ x = "completed" /\ InSeq(j, wf.completed_jobs)
                       \/ x = "failed" /\ InSeq(j, wf.failed_jobs)
                       \/ x = "skipped" /\ job.status = "skipped"}) = 1
    /\ job.status \notin {"pending", "retrying", "running"}

\* C7 (P6, skip completeness): when the status of a running workflow becomes
\* completed or failed, every job of it that is not always_run is accounted for.
P6_SkipCompleteness ==
    [][\A w \in DOMAIN workflows :
           (/\ w \in DOMAIN workflows'
            /\ workflows[w].status = "running"
            /\ workflows'[w].status \in {"completed", "failed"}
            /\ workflows'[w].status # workflows[w].status)
               => \A j \in SeqSet(workflows'[w].jobs) :
                      wjobs'[<<w, j>>].always_run
                          \/ Accounted(workflows'[w], wjobs'[<<w, j>>], j)]_vars

\* what a delivery of job_status completed leaves, the messages it wrote apart
delivered(s, j, bad) == [handle_job_completion(s, j, bad) EXCEPT !.out = <<>>]

\* C8 (R1, completion idempotence): in every state, for every job, a second
\* delivery of job_status completed right after the first changes nothing
\* (workflows, jobs, workers, assignments) and dispatches nothing.
R1_CompletionIdempotent ==
    \A j \in DOMAIN jobs : \A bad \in Sockets :
        handle_job_completion(delivered(State, j, bad), j, bad)
            = delivered(State, j, bad)

\* a completed report was delivered and will be delivered again, and its first
\* delivery dispatched a successor
R1_Witness ==
    \E j \in DOMAIN jobs :
        /\ registered_job(j).status = "completed"
        /\ \E k \in WorkerIds : <<k, j, "completed">> \in tasks
        /\ \E c \in SeqSet(registered_job(j).on_success) :
               /\ has_job(State, c)
               /\ registered_job(c).status = "running"
               /\ \E k \in WorkerIds : <<k, c, "assigned">> \in tasks

\* C9: after cancel_workflow, a completed report for a job that was running at
\* cancellation changes nothing: the job stays failed with the cancellation
\* error, out of completed_jobs, no successor is dispatched, and the workflow
\* stays cancelled.
LateCompletionIsNoOp ==
    \A j \in DOMAIN jobs :
        (/\ workflows[workflow_of(j)].status = "cancelled"
         /\ registered_job(j).status = "failed"
         /\ registered_job(j).error = "Workflow cancelled"
         /\ \E k \in WorkerIds : <<k, j, "started">> \in tasks)
            => \A bad \in Sockets :
                   LET s2 == handle_job_completion(State, j, bad) IN
                   /\ s2.wjobs[get_job(State, j)] = registered_job(j)
                   /\ ~InSeq(j, s2.workflows[workflow_of(j)].completed_jobs)
                   /\ s2.out = <<>>
                   /\ s2.workflows[workflow_of(j)].status = "cancelled"

\* what cancel_workflow does to workflow w, for the jobs in `must_fail`: status
\* cancelled; the running jobs of current_jobs among them failed with the
\* cancellation error; no retry_count changed; only always_run jobs dispatched
CancelEffect(w, must_fail) ==
    \A bad \in Sockets :
        LET s2 == cancel_workflow(State, w, bad) IN
        /\ s2.workflows[w].status = "cancelled"
        /\ \A j \in SeqSet(workflows[w].current_jobs) \cap must_fail :
               wjobs[<<w, j>>].status = "running"
                   => /\ s2.wjobs[<<w, j>>].status = "failed"
                      /\ s2.wjobs[<<w, j>>].error = "Workflow cancelled"
        /\ \A o \in DOMAIN wjobs : s2.wjobs[o].retry_count = wjobs[o].retry_count
        /\ \A e \in SeqSet(s2.out) : wjobs[<<w, e[1]>>].always_run

\* C10, as stated: cancel_workflow on a pending or running workflow fails every
\* running job of current_jobs.
CancelFailsRunningJobs ==
    \A w \in DOMAIN workflows :
        workflows[w].status \in {"pending", "running"}
            => CancelEffect(w, SeqSet(workflows[w].jobs))

\* C10, amended: cancel_workflow on a pending or running workflow fails every
\* running job of current_jobs that is not always_run (a running always_run
\* job is scheduled again by the always-run pass).
CancelFailsRunningJobsNotAlwaysRun ==
    \A w \in DOMAIN workflows :
        workflows[w].status \in {"pending", "running"}
            => CancelEffect(w, {j \in SeqSet(workflows[w].jobs) :
                                    ~wjobs[<<w, j>>].always_run})

\* a running workflow can be cancelled while a job that is not always_run runs
\* and an always_run job would be dispatched
CancelWitness ==
    \E w \in DOMAIN workflows :
        /\ workflows[w].status = "running"
        /\ \E j \in SeqSet(workflows[w].current_jobs) :
               wjobs[<<w, j>>].status = "running" /\ ~wjobs[<<w, j>>].always_run
        /\ cancel_workflow(State, w, {}).out # <<>>

\* C11: start_workflow on an unknown workflow id, or on a workflow that is not
\* pending, returns false and leaves the whole state as it was, with no job
\* dispatched.
StartRefusedChangesNothing ==
    \A w \in WorkflowIds \cup {"w0"} :
        (w \notin DOMAIN workflows \/ workflows[w].status # "pending")
            => /\ ~start_workflow_returns(State, w)
               /\ \A bad \in Sockets : start_workflow(State, w, bad) = State

\* a running workflow has an entry job waiting and an idle worker for it: a
\* start that went through would dispatch the job
StartRefusedWitness ==
    \E w \in DOMAIN workflows :
        /\ workflows[w].status = "running"
        /\ \E j \in SeqSet(workflows[w].jobs) :
               /\ wjobs[<<w, j>>].status = "pending"
               /\ \A p \in SeqSet(workflows[w].jobs) : j \notin refs(State, w, p)
               /\ suitable_workers(State, wjobs[<<w, j>>].type) # <<>>

\* the jobs of workflow w that no job lists in on_success or on_failure, in
\* definition order
Unreferenced(w) ==
    SelectSeq(workflows[w].jobs,
              LAMBDA j : \A p \in SeqSet(workflows[w].jobs) : j \notin refs(State, w, p))

\* the position of a job in a list (0 when it is not in it)
Position(q, x) == IF InSeq(x, q) THEN CHOOSE i \in 1..Len(q) : q[i] = x ELSE 0

\* C12: start_workflow on a pending workflow with a sound graph sets it running
\* and calls schedule_job for exactly the unreferenced jobs, in definition
\* order: only these are dispatched, in that order, and no other job changes;
\* with no such job (empty job list) the workflow is failed and nothing is
\* dispatched.
StartSchedulesEntryJobs ==
    \A w \in DOMAIN workflows :
        (workflows[w].status = "pending" /\ GraphSound(w))
            => \A bad \in Sockets :
                   LET s2 == start_workflow(State, w, bad)
                       entries == Unreferenced(w)
                   IN IF entries = <<>>
                      THEN /\ workflows[w].jobs = <<>>
                           /\ s2 = [State EXCEPT !.workflows[w].status = "failed"]
                      ELSE /\ s2.workflows[w].status = "running"
                           /\ s2 = schedule_each(
                                       [State EXCEPT !.workflows[w].status = "running"],
                                       w, entries, FALSE, bad)
                           /\ \A i \in 1..Len(s2.out) : InSeq(s2.out[i][1], entries)
                           /\ \A i, k \in 1..Len(s2.out) :
                                  i < k => Position(entries, s2.out[i][1])
                                               < Position(entries, s2.out[k][1])
                           /\ \A j \in SeqSet(workflows[w].jobs) :
                                  ~InSeq(j, entries)
                                      => s2.wjobs[<<w, j>>] = wjobs[<<w, j>>]

\* the workflow defined as C, B, A, where only A has a predecessor, was
\* started: C went to the first worker and B to the second
StartWitness ==
    \E w \in DOMAIN workflows :
        /\ workflows[w].jobs = <<"C", "B", "A">>
        /\ Unreferenced(w) = <<"C", "B">>
        /\ workflows[w].status = "running"
        /\ workflows[w].current_jobs = <<"C", "B">>
        /\ {<<"k1", "C", "assigned">>, <<"k2", "B", "assigned">>} \subseteq tasks
        /\ wjobs[<<w, "A">>].status = "pending"

\* the jobs of workflow w that list j in on_success
SuccessPredecessors(w, j) ==
    {p \in SeqSet(workflows[w].jobs) : InSeq(j, wjobs[<<w, p>>].on_success)}

\* job j of workflow w has been sent to a worker
JobDispatched(w, j) ==
    \/ wjobs[<<w, j>>].status \in {"running", "completed"}
    \/ \E t \in tasks : t[2] = j

\* C13: a job that several jobs, and only they, list in on_success is
\* dispatched only when all of them are in completed_jobs.
JoinWaitsForAll ==
    \A w \in DOMAIN workflows : \A j \in SeqSet(workflows[w].jobs) :
        (/\ Cardinality(SuccessPredecessors(w, j)) >= 2
         /\ \A p \in SeqSet(workflows[w].jobs) : ~InSeq(j, wjobs[<<w, p>>].on_failure)
         /\ JobDispatched(w, j))
            => \A p \in SuccessPredecessors(w, j) : InSeq(p, workflows[w].completed_jobs)

\* the jobs for which the step writes a job_assignment message
Sent ==
    {j \in JobIds : \E k \in WorkerIds :
        <<k, j, "assigned">> \in tasks' /\ <<k, j, "assigned">> \notin tasks}

\* C14: when no job fails a job is sent to a worker at most once: a
\* job_assignment is written only for a job that no worker holds and that is
\* neither running nor completed, a job that a worker holds is running or
\* completed, and a running or completed job stays running or completed.
DispatchedOnce ==
    /\ [][\A w \in DOMAIN workflows : \A j \in SeqSet(workflows[w].jobs) :
            /\ j \in Sent =>
                 /\ wjobs[<<w, j>>].status \notin {"running", "completed"}
                 /\ ~InSeq(j, workflows[w].completed_jobs)
                 /\ ~\E t \in tasks : t[2] = j
            /\ wjobs[<<w, j>>].status \in {"running", "completed"}
                 => wjobs'[<<w, j>>].status \in {"running", "completed"}]_vars
    /\ [](\A w \in DOMAIN workflows : \A j \in SeqSet(workflows[w].jobs) :
            (\E t \in tasks : t[2] = j)
                => wjobs[<<w, j>>].status \in {"running", "completed"})

\* the join job A was sent after C completed, and B completes afterwards
DispatchedOnceWitness ==
    \E w \in DOMAIN workflows :
        /\ workflows[w].jobs = <<"A", "B", "C">>
        /\ SuccessPredecessors(w, "A") = {"B", "C"}
        /\ workflows[w].completed_jobs = <<"C", "B">>
        /\ wjobs[<<w, "A">>].status = "running"
        /\ \E k \in WorkerIds : <<k, "A", "started">> \in tasks

\* workflow w has the shape A (on_success B, on_failure C), B, C (always_run)
IsBranch(w) ==
    /\ workflows[w].jobs = <<"A", "B", "C">>
    /\ wjobs[<<w, "A">>].on_success = <<"B">>
    /\ wjobs[<<w, "A">>].on_failure = <<"C">>
    /\ wjobs[<<w, "C">>].always_run

AlwaysRunDispatched ==
    \A w \in DOMAIN workflows :
        workflows[w].status \in {"completed", "failed"} =>
            \A j \in SeqSet(workflows[w].jobs) :
                wjobs[<<w, j>>].always_run =>
                    \/ wjobs[<<w, j>>].status \in {"running", "retrying", "completed", "failed"}
                    \/ \E t \in tasks : t[2] = j

\* C17: when every job sent is reported and followed by ready, a workflow
\* that is running eventually is completed, failed or cancelled.
StartedTerminates ==
    \A w \in WorkflowIds :
        (w \in DOMAIN workflows /\ workflows[w].status = "running")
            ~> (w \in DOMAIN workflows
                /\ workflows[w].status \in {"completed", "failed", "cancelled"})

LiveJobs(k) ==
    {j \in DOMAIN jobs :
        /\ InSeq(<<j, k>>, job_assignments)
        /\ registered_job(j).status = "running"
        /\ registered_job(j).worker_id = k}

AssignJobContract ==
    \A j \in JobIds : \A job_type \in JobType : \A bad \in Sockets :
        LET r == assign_job(State, j, job_type, bad) IN
        /\ r.worker_id # None =>
             /\ r.worker_id \in DOMAIN workers
             /\ workers[r.worker_id].status = "idle"
             /\ job_type \in workers[r.worker_id].capabilities
             /\ r.worker_id \notin bad
             /\ r.s.workers[r.worker_id].status = "busy"
             /\ r.s.workers[r.worker_id].current_job_id = j
             /\ InSeq(<<j, r.worker_id>>, r.s.job_assignments)
             /\ r.s.out = <<<<j, r.worker_id>>>>
             /\ \A k \in DOMAIN workers \ {r.worker_id} : r.s.workers[k] = workers[k]
        /\ (~\E k \in DOMAIN workers :
                workers[k].status = "idle" /\ job_type \in workers[k].capabilities)
             => r.worker_id = None /\ r.s = State

\* k1 runs A, and no worker that is idle supports B's type: assign_job
\* returned k1 for A and returns none for B
AssignJobWitness ==
    /\ DOMAIN workers = {"k1", "k2"}
    /\ workers["k1"].status = "busy" /\ workers["k1"].current_job_id = "A"
    /\ workers["k2"].status = "idle"
    /\ InSeq(<<"A", "k1">>, job_assignments)
    /\ <<"k1", "A", "started">> \in tasks
    /\ \E w \in DOMAIN workflows :
           /\ workflows[w].jobs = <<"A", "B">>
           /\ wjobs[<<w, "B">>].status = "pending"
           /\ assign_job(State, "B", wjobs[<<w, "B">>].type, {}).worker_id = None

\* the write of assign_job(j, job_type) fails: a worker is chosen and its
\* socket raises
SendFails(job_type, bad) ==
    /\ suitable_workers(State, job_type) # <<>>
    /\ suitable_workers(State, job_type)[1] \in bad

NoWorkerLeavesJobPending ==
    /\ \A j \in DOMAIN jobs : \A bad \in Sockets :
           LET w == jobs[j]
               old == wjobs[<<w, j>>]
           IN (/\ old.status \notin {"running", "completed"}
               /\ assign_job(State, j, old.type, bad).worker_id = None) =>
                  LET s2 == schedule_job(State, w, j, bad)
                      new == s2.wjobs[<<w, j>>]
                  IN /\ new.status = "pending"
                     /\ ~InSeq(j, s2.workflows[w].current_jobs)
                     /\ new.retry_count = old.retry_count
                     /\ s2.workflows[w].completed_jobs = workflows[w].completed_jobs
                     /\ s2.workflows[w].failed_jobs = workflows[w].failed_jobs
                     /\ s2.workflows[w].status = workflows[w].status
                     /\ s2.out = <<>>
                     /\ \A o \in DOMAIN wjobs \ {<<w, j>>} : s2.wjobs[o] = wjobs[o]
    /\ \A w \in DOMAIN workflows :
           (/\ start_workflow_returns(State, w)
            /\ \A k \in DOMAIN workers : workers[k].status # "idle") =>
               LET s2 == start_workflow(State, w, {}) IN
               /\ s2.workflows[w].status = "running"
               /\ s2.workflows[w].current_jobs = <<>>
               /\ s2.workflows[w].completed_jobs = <<>>
               /\ s2.workflows[w].failed_jobs = <<>>
               /\ \A j \in SeqSet(workflows[w].jobs) : s2.wjobs[<<w, j>>].status = "pending"
               /\ s2.out = <<>>

\* a workflow was started when no worker was registered
NoWorkerWitness ==
    /\ DOMAIN workers = {}
    /\ tasks = {}
    /\ \E w \in DOMAIN workflows :
           /\ workflows[w].status = "running"
           /\ workflows[w].jobs = <<"A", "B">>
           /\ workflows[w].current_jobs = <<>>
           /\ \A j \in {"A", "B"} : wjobs[<<w, j>>].status = "pending"
                                     /\ wjobs[<<w, j>>].retry_count = 0

\* workflow w and its jobs are the same in state s2 as now
SameWorkflow(s2, w) ==
    /\ s2.workflows[w] = workflows[w]
    /\ \A j \in SeqSet(workflows[w].jobs) : s2.wjobs[<<w, j>>] = wjobs[<<w, j>>]

\* C23: while a workflow has not been started, so that every job on a worker
\* was sent for another workflow, a final report of a worker and the removal
\* of a worker leave it and its jobs unchanged, also when the other workflow
\* was created from the same definition.
WorkflowsIsolated ==
    \A w \in DOMAIN workflows : \A bad \in Sockets :
        workflows[w].status = "pending" =>
            /\ \A t \in tasks : \A status \in {"completed", "failed"} :
                   t[3] = "started" => SameWorkflow(job_status(State, t[2], status, bad), w)
            /\ \A k \in DOMAIN workers : SameWorkflow(disconnect(State, k, bad), w)

\* the in-memory maps of the StateManager
Memory(s) ==
    [workflows |-> s.workflows, wjobs |-> s.wjobs, jobs |-> s.jobs,
     workers |-> s.workers, job_assignments |-> s.job_assignments]

\* C24: with persistence enabled, a StateManager mutation (add_workflow,
\* add_worker, remove_worker, assign_job, unassign_job) whose durable write
\* raises leaves the in-memory maps exactly as they were before the call.
DurableWriteFailureLeavesMemory ==
    db.postgres =>
        /\ \A w \in WorkflowIds \ DOMAIN workflows : \A n \in 0..Len(DefJobs("linear")) :
               Memory(add_workflow_fails(State, w, DefJobs("linear"),
                                         [j \in SeqSet(DefJobs("linear")) |->
                                              DefJob("linear", j)], n))
                   = Memory(State)
        /\ \A k \in WorkerIds \ DOMAIN workers :
               Memory(add_worker_memory(State, k, Worker(WorkerCapabilities(k))))
                   = Memory(State)
        /\ \A k \in DOMAIN workers :
               Memory(remove_worker_memory(State, k)) = Memory(State)
        /\ \A j \in JobIds : \A k \in DOMAIN workers :
               (\A e \in SeqSet(job_assignments) : e[1] # j) =>
                   Memory(state_assign_job_memory(State, j, k)) = Memory(State)
        /\ \A e \in SeqSet(job_assignments) :
               Memory(state_unassign_job_memory(State, e[1])) = Memory(State)

\* C26: restart equivalence.  Every status and id-set change made by the engine
\* is in durable storage when its handler returns: for every workflow that has
\* its rows, a rebuild from the rows gives the status, the current, completed
\* and failed id lists and the job statuses that the memory holds.
RestartEquivalence ==
    db.postgres =>
        LET r == rebuild_from_db(db) IN
        \A w \in DOMAIN workflows \cap DOMAIN r.workflows :
            /\ r.workflows[w].status = workflows[w].status
            /\ r.workflows[w].current_jobs = workflows[w].current_jobs
            /\ r.workflows[w].completed_jobs = workflows[w].completed_jobs
            /\ r.workflows[w].failed_jobs = workflows[w].failed_jobs
            /\ \A j \in SeqSet(workflows[w].jobs) :
                   <<w, j>> \in DOMAIN r.wjobs =>
                       r.wjobs[<<w, j>>].status = wjobs[<<w, j>>].status

\* C25: after a coordinator restart with persistence enabled, every job rebuilt
\* with status running or retrying is passed to the failure handler before
\* traffic is accepted (no socket is open then, so the handler leaves it pending
\* with one more retry, or failed): when the restart is over no job is running
\* or retrying.
RestartReconciles ==
    [][Restart => \A o \in DOMAIN wjobs' :
                      wjobs'[o].status \notin {"running", "retrying"}]_vars

\* some predecessor of j that lists it in on_success has completed, or some
\* predecessor that lists it in on_failure has failed
PredecessorDone(wf, js, w, j) ==
    \E p \in SeqSet(wf.jobs) :
        \/ InSeq(j, js[<<w, p>>].on_success) /\ InSeq(p, wf.completed_jobs)
        \/ InSeq(j, js[<<w, p>>].on_failure) /\ InSeq(p, wf.failed_jobs)

\* j is listed in on_success or on_failure of some job of the workflow
HasPredecessor(wf, js, w, j) ==
    \E p \in SeqSet(wf.jobs) :
        InSeq(j, js[<<w, p>>].on_success) \/ InSeq(j, js[<<w, p>>].on_failure)

\* C27: a job that is neither an entry job nor always_run is sent in a
\* job_assignment only if a predecessor listing it in on_success is in
\* completed_jobs or a predecessor listing it in on_failure is in failed_jobs
\* (the id lists never shrink, so they are read when the handler returns); a
\* job that has only on_failure predecessors is sent only after one of them
\* failed.
DispatchNeedsPredecessor ==
    [][\A t \in tasks' \ tasks : \A w \in DOMAIN workflows :
           (/\ t[3] = "assigned"
            /\ InSeq(t[2], workflows[w].jobs)
            /\ HasPredecessor(workflows[w], wjobs, w, t[2])
            /\ ~wjobs[<<w, t[2]>>].always_run)
           => PredecessorDone(workflows'[w], wjobs', w, t[2])]_vars

\* the fallback job C, which only the on_failure list of A names, was sent to
\* a worker after A failed for good
DispatchWitness ==
    /\ "w1" \in DOMAIN workflows
    /\ workflows["w1"].jobs = <<"A", "B", "C">>
    /\ ~wjobs[<<"w1", "C">>].always_run
    /\ workflows["w1"].failed_jobs = <<"A">>
    /\ \E k \in WorkerIds : <<k, "C", "assigned">> \in tasks

FinalStatusWaitsForAlwaysRun ==
    \A w \in DOMAIN workflows : \A t \in tasks : \A bad \in Sockets :
        (t[3] = "started" /\ workflows[w].status = "running") =>
            LET s2 == job_status(State, t[2], "completed", bad) IN
            \A e \in SeqSet(s2.out) :
                (/\ InSeq(e[1], workflows[w].jobs)
                 /\ s2.wjobs[<<w, e[1]>>].always_run
                 /\ s2.wjobs[<<w, e[1]>>].status = "running")
                => s2.workflows[w].status \notin {"completed", "failed"}

\* C30: termination is evaluated after every job status change, a terminal
\* failure with on_failure successors included: when a handler has returned no
\* workflow is running with current_jobs empty and without a job, outside
\* completed_jobs and failed_jobs, that satisfies the scheduling precondition.
TerminationEvaluated ==
    \A w \in DOMAIN workflows :
        ~(/\ workflows[w].status = "running"
          /\ workflows[w].current_jobs = <<>>
          /\ \A j \in SeqSet(workflows[w].jobs) :
                 (~InSeq(j, workflows[w].completed_jobs)
                  /\ ~InSeq(j, workflows[w].failed_jobs))
                 => ~can_schedule_job(State, w, j))

\* C31: an assignment entry exists only while its job is running: after every
\* handler the jobs that have an entry in job_assignments are the jobs with
\* status running.
AssignmentsAreRunningJobs ==
    {e[1] : e \in SeqSet(job_assignments)}
        = {j \in DOMAIN jobs : wjobs[get_job(State, j)].status = "running"}

\* C32: after every handler each registered worker is busy if and only if its
\* current_job_id is set.
BusyIffCurrentJob ==
    \A k \in DOMAIN workers :
        workers[k].status = "busy" <=> workers[k].current_job_id # None

\* C34: at every wake-up of the liveness monitor every registered worker whose
\* last heartbeat is more than 60 seconds old, however old, is removed from the
\* worker map and from the connection map, and no worker whose last heartbeat
\* is at most 60 seconds old is removed.
MonitorRemovesStaleWorkers ==
    \A ages \in [DOMAIN workers -> HeartbeatAges] : \A bad \in Sockets :
        LET s2 == check_worker_health(State, ages, bad) IN
        \A k \in DOMAIN workers :
            /\ ages[k] > HeartbeatTimeout =>
                   k \notin DOMAIN s2.workers /\ k \notin s2.active_connections
            /\ ages[k] <= HeartbeatTimeout => k \in DOMAIN s2.workers

\* C37: a job in completed_jobs is never sent again and its status never leaves
\* completed, whatever the step: a duplicate or late failed report for it, or
\* the loss of the worker that ran it.
CompletedStaysCompleted ==
    [][\A w \in DOMAIN workflows : \A j \in SeqSet(workflows[w].jobs) :
           (InSeq(j, workflows[w].completed_jobs) /\ wjobs[<<w, j>>].status = "completed")
           => /\ wjobs'[<<w, j>>].status = "completed"
              /\ \A t \in tasks' \ tasks : ~(t[2] = j /\ t[3] = "assigned")]_vars

\* C38: once a workflow is completed, failed or cancelled, none of its jobs
\* that is not always_run is sent in a job_assignment: a completed report or a
\* failed report arriving afterwards sends neither that job nor a successor.
FinishedWorkflowSendsNothing ==
    [][\A w \in DOMAIN workflows :
           workflows[w].status \in {"completed", "failed", "cancelled"} =>
               \A t \in tasks' \ tasks :
                   (t[3] = "assigned" /\ InSeq(t[2], workflows[w].jobs))
                   => wjobs[<<w, t[2]>>].always_run]_vars

\* C39: when WorkerRegistry.disconnect(k) has returned, k is in neither the
\* worker map nor the connection map, no assignment entry names k and no job
\* has worker_id k.
DisconnectForgetsWorker ==
    \A k \in DOMAIN workers : \A bad \in Sockets :
        LET s2 == disconnect(State, k, bad) IN
        /\ k \notin DOMAIN s2.workers
        /\ k \notin s2.active_connections
        /\ \A e \in SeqSet(s2.job_assignments) : e[2] # k
        /\ \A o \in DOMAIN s2.wjobs : s2.wjobs[o].worker_id # k
        /\ \A e \in SeqSet(s2.out) : e[2] # k

\* C36: a job that fails with its retries exhausted is not dispatched again:
\* the handler of the failure report of a running job whose retry_count has
\* reached max_retries writes no job_assignment for that job, so the job is
\* sent at most max_retries + 1 times.
ExhaustedJobNotSentAgain ==
    \A j \in DOMAIN jobs : \A bad \in Sockets :
        LET job == wjobs[get_job(State, j)] IN
        (job.status = "running" /\ job.retry_count >= job.max_retries) =>
            \A e \in SeqSet(handle_job_failure(State, j, "error", bad).out) :
                e[1] # j

\* the jobs a worker was sent and has not reported the end of
Unreported(k) == {t \in tasks : t[1] = k /\ t[3] \in {"assigned", "started"}}

\* C35: no worker executes two jobs at once: at most one running job has a
\* given worker as worker_id, and no job_assignment is sent to a worker that
\* has not reported the end of the job it was sent before.
OneJobPerWorker ==
    /\ [](\A o1, o2 \in DOMAIN wjobs :
              (/\ wjobs[o1].status = "running" /\ wjobs[o2].status = "running"
               /\ wjobs[o1].worker_id # None
               /\ wjobs[o1].worker_id = wjobs[o2].worker_id) => o1 = o2)
    /\ [][\A t \in tasks' \ tasks :
              t[3] = "assigned" => /\ Unreported(t[1]) = {}
                                   /\ Cardinality(Unreported(t[1])') = 1]_vars

\* C40: the rollback of a dispatch undoes only that dispatch: when the write of
\* job J to worker W was suspended while W was disconnected, and the handling
\* of the lost worker has sent J to another worker W2, the failure of the first
\* write keeps the entry J -> W2, leaves J running and leaves J in current_jobs.
RollbackUndoesOwnDispatch ==
    [][\A t \in Sending : \A k2 \in DOMAIN workers :
           LET c == t[4]
               w == c.w[1]
           IN (/\ ~c.live /\ t \notin tasks'
               /\ k2 # t[1]
               /\ <<t[2], k2>> \in SeqSet(job_assignments)
               /\ wjobs[c.o].status = "running" /\ wjobs[c.o].worker_id = k2
               /\ InSeq(t[2], workflows[w].current_jobs))
              => /\ <<t[2], k2>> \in SeqSet(job_assignments')
                 /\ wjobs'[c.o].status # "pending"
                 /\ InSeq(t[2], workflows'[w].current_jobs)]_vars

\* a completion handler as a task of the event loop: not begun, suspended in a
\* write, or returned
Handler(j) == [job |-> j, begun |-> FALSE, susp |-> <<>>]

Done(h) == h.begun /\ h.susp = <<>>

\* the handler runs to its next write or to its return
Advance(s, h, bad) ==
    LET r == IF ~h.begun THEN completion_begin(s, h.job)
             ELSE resume(s, h.susp[1], send_message(s, h.susp[1].worker_id, bad))
    IN [s |-> r.s, h |-> [job |-> h.job, begun |-> TRUE, susp |-> r.susp]]

\* the states two handlers may leave when they take turns at their writes
RECURSIVE Interleaved(_, _, _, _)
Interleaved(s, h1, h2, bad) ==
    IF Done(h1) /\ Done(h2) THEN {s}
    ELSE (IF Done(h1) THEN {}
          ELSE LET r == Advance(s, h1, bad) IN Interleaved(r.s, r.h, h2, bad))
         \cup
         (IF Done(h2) THEN {}
          ELSE LET r == Advance(s, h2, bad) IN Interleaved(r.s, h1, r.h, bad))

\* what a client sees of a workflow, and the jobs that were sent
Outcome(s, w) ==
    [status |-> s.workflows[w].status,
     completed_jobs |-> SeqSet(s.workflows[w].completed_jobs),
     failed_jobs |-> SeqSet(s.workflows[w].failed_jobs),
     current_jobs |-> SeqSet(s.workflows[w].current_jobs),
     job_status |-> [j \in SeqSet(s.workflows[w].jobs) |-> s.wjobs[<<w, j>>].status],
     dispatched |-> {e[1] : e \in SeqSet(s.out)}]

\* two workers have each started a job of workflow w and no handler is running
Concurrent(t1, t2, w) ==
    /\ t1 \in tasks /\ t2 \in tasks /\ Sending = {}
    /\ t1[3] = "started" /\ t2[3] = "started"
    /\ t1[1] # t2[1] /\ t1[2] # t2[2]
    /\ InSeq(t1[2], workflows[w].jobs) /\ InSeq(t2[2], workflows[w].jobs)

\* the outcomes of the two handlers when one runs after the other, in either
\* order, whatever writes raise
Sequential(j1, j2, w) ==
    {Outcome(handle_job_completion(handle_job_completion(State, a[1], bad), a[2], bad), w) :
         a \in {<<j1, j2>>, <<j2, j1>>}, bad \in Sockets}

====
